---------------------------- MODULE Spec2Model ----------------------------
(***************************************************************************)
(* Model of the workout-tracker parsing and analytics core:                *)
(*   src/src/utils/dataParser.js     (row / worksheet / date parsing)      *)
(*   src/src/utils/muscleMapping.js  (exercise -> muscle groups)           *)
(*                                                                         *)
(* JavaScript strings are TLA+ strings (TLC evaluates Len, SubSeq and \o   *)
(* on them).  JavaScript numbers are exact decimals <<m, e>> standing for  *)
(* m / 10^e, kept normalised; NaN is a distinguished value.  A JavaScript  *)
(* value of unknown type (a sheet cell, an argument) is <<type, text>>     *)
(* where text is what String(value) gives.                                 *)
(***************************************************************************)
EXTENDS Integers, Sequences, FiniteSets, TLC

VARIABLES
    pc,             \* which call is running and where it stands
    value,          \* parseCommaSeparated: the argument
    parsed,         \* parseCommaSeparated: the returned array
    row,            \* parseExerciseRow: the argument row
    exercise,       \* parseExerciseRow: the returned exercise, <<>> for null;
                    \* in parseWorksheet, the loop's const exercise
    sheetName,      \* parseWorksheet / parseDateString: the label
    rows,           \* parseWorksheet: the argument rows
    next,           \* parseWorksheet: index into rows of the next row of the for loop
    exercises,      \* parseWorksheet: local exercises
    totalVolume,    \* parseWorksheet: local totalVolume
    workout,        \* parseWorksheet: the returned workout, <<>> before return
    dateObject,     \* parseDateString: the returned Date, <<>> for null
    exerciseName,   \* getMuscleGroups: the argument name
    customMappings, \* getMuscleGroups / parseExerciseRow: the custom mapping
    muscles,        \* getMuscleGroups: the returned list
    workouts,       \* calculateStats / calculateMuscleVolume: the argument workouts;
                    \* calculateExerciseHistory: the argument allWorkouts
    stats,          \* calculateStats: the returned object
    muscleVolume,   \* calculateMuscleVolume: the local muscleVolume and the returned object
    currentDate,    \* calculateExerciseHistory: the argument currentDate, <<>> for null
    now,            \* calculateExerciseHistory: what new Date() gives when it is called
    history,        \* calculateExerciseHistory: the returned object
    current,        \* calculateChange: the argument current
    previous,       \* calculateChange: the argument previous, <<>> for null
    change,         \* calculateChange: the returned object
    hrData,         \* detectHRPeaks: the argument hrData
    timeData,       \* detectHRPeaks: the argument timeData
    options,        \* detectHRPeaks: the argument options, defaults filled in
    peaks,          \* detectHRPeaks: the returned array
    streams,        \* detectHRPeaks / correlateSetsToHR: heartrate and time of the HR streams
    allSets,        \* correlateSetsToHR: the argument sets (allSets of analyzeWorkoutHR)
    peaksArg,       \* correlateSetsToHR: the argument peaks, <<>> for null
    correlatedSets, \* correlateSetsToHR: the returned sets
    sheets,         \* the spreadsheet: its sheets in order, each a title and its rows
    saveDate,       \* saveWorkout: the argument date
    saveExercises,  \* saveWorkout: the argument exercises
    dateSheets,     \* fetchAllWorkouts: the date-named sheet titles
    completed,      \* fetchAllWorkouts: let completed
    progress,       \* fetchAllWorkouts: the calls of onProgress so far
    failed,         \* fetchAllWorkouts: the sheets whose fetch threw so far
    exists          \* saveWorkout: the answer of sheetExists, <<>> before the call

vars == <<pc, value, parsed, row, exercise, sheetName, rows, next, exercises,
          totalVolume, workout, dateObject, exerciseName, customMappings, muscles,
          workouts, stats, muscleVolume, currentDate, now, history, current, previous,
          change, hrData, timeData, options, peaks,
          streams, allSets, peaksArg, correlatedSets, sheets, saveDate, saveExercises, dateSheets, completed, progress, failed,
          exists>>

---------------------------------------------------------------------------
(* Bounds of the model *)

\* longest string drawn exhaustively for parseCommaSeparated
MaxLen == 4
\* most rows of a worksheet (header row included)
MaxRows == 4
\* month parts 0..MaxMonth and day parts 0..MaxDay of the date labels
MaxMonth == 13
MaxDay == 32
\* longest list of workouts handed to the analytics functions
MaxWorkouts == 3
\* most samples of a heart-rate stream
MaxSamples == 5
\* most sets handed to correlateSetsToHR
MaxSets == 4
\* samples of the long heart-rate stream
LongSamples == 32
\* most exercises of a saved workout
MaxSaved == 2
\* most sheets of the spreadsheet fetchAllWorkouts reads
MaxSheets == 3
\* most messy rows in front of the valid row of a worksheet
MaxMessyRows == 2

---------------------------------------------------------------------------
(* JavaScript strings *)

CharAt(s, k) == SubSeq(s, k, k)

IsSpace(c) == c \in {" ", "\t", "\n"}

IsDigit(c) == c \in {"0", "1", "2", "3", "4", "5", "6", "7", "8", "9"}

DigitVal(c) ==
    CASE c = "0" -> 0 [] c = "1" -> 1 [] c = "2" -> 2 [] c = "3" -> 3
      [] c = "4" -> 4 [] c = "5" -> 5 [] c = "6" -> 6 [] c = "7" -> 7
      [] c = "8" -> 8 [] c = "9" -> 9

RECURSIVE trimStart(_)
trimStart(s) ==
    IF s # "" /\ IsSpace(CharAt(s, 1)) THEN trimStart(SubSeq(s, 2, Len(s))) ELSE s

RECURSIVE trimEnd(_)
trimEnd(s) ==
    IF s # "" /\ IsSpace(CharAt(s, Len(s))) THEN trimEnd(SubSeq(s, 1, Len(s) - 1)) ELSE s

\* String.prototype.trim
trim(s) == trimEnd(trimStart(s))

LowerChar(c) ==
    CASE c = "A" -> "a" [] c = "B" -> "b" [] c = "C" -> "c" [] c = "D" -> "d"
      [] c = "E" -> "e" [] c = "F" -> "f" [] c = "G" -> "g" [] c = "H" -> "h"
      [] c = "I" -> "i" [] c = "J" -> "j" [] c = "K" -> "k" [] c = "L" -> "l"
      [] c = "M" -> "m" [] c = "N" -> "n" [] c = "O" -> "o" [] c = "P" -> "p"
      [] c = "Q" -> "q" [] c = "R" -> "r" [] c = "S" -> "s" [] c = "T" -> "t"
      [] c = "U" -> "u" [] c = "V" -> "v" [] c = "W" -> "w" [] c = "X" -> "x"
      [] c = "Y" -> "y" [] c = "Z" -> "z" [] OTHER -> c

\* String.prototype.toLowerCase
RECURSIVE toLowerCase(_)
toLowerCase(s) ==
    IF s = "" THEN "" ELSE LowerChar(CharAt(s, 1)) \o toLowerCase(SubSeq(s, 2, Len(s)))

\* String.prototype.includes: sub occurs in s (the empty string occurs in every string)
includes(s, sub) ==
    \E k \in 1..(Len(s) - Len(sub) + 1) : SubSeq(s, k, k + Len(sub) - 1) = sub

\* String.prototype.split on a one-character separator: always at least one part
RECURSIVE split(_, _)
split(s, sep) ==
    IF \E k \in 1..Len(s) : CharAt(s, k) = sep
    THEN LET k == CHOOSE j \in 1..Len(s) :
                      CharAt(s, j) = sep /\ \A h \in 1..(j - 1) : CharAt(s, h) # sep
         IN  <<SubSeq(s, 1, k - 1)>> \o split(SubSeq(s, k + 1, Len(s)), sep)
    ELSE <<s>>

\* length of the longest prefix of s made of digits
RECURSIVE DigitPrefixLen(_)
DigitPrefixLen(s) ==
    IF s # "" /\ IsDigit(CharAt(s, 1)) THEN 1 + DigitPrefixLen(SubSeq(s, 2, Len(s))) ELSE 0

\* the value of a string of digits ("" is 0)
RECURSIVE DigitsVal(_)
DigitsVal(s) ==
    IF s = "" THEN 0
    ELSE DigitsVal(SubSeq(s, 1, Len(s) - 1)) * 10 + DigitVal(CharAt(s, Len(s)))

---------------------------------------------------------------------------
(* JavaScript numbers: <<m, e>> is m / 10^e with e >= 0, normalised *)

NaN == <<0, -1>>

isNaN(x) == x = NaN

RECURSIVE Pow10(_)
Pow10(e) == IF e = 0 THEN 1 ELSE 10 * Pow10(e - 1)

RECURSIVE Norm(_, _)
Norm(m, e) == IF e > 0 /\ m % 10 = 0 THEN Norm(m \div 10, e - 1) ELSE <<m, e>>

IntNum(n) == <<n, 0>>

Zero == IntNum(0)

Max2(a, b) == IF a >= b THEN a ELSE b

\* x + y
Add(x, y) ==
    IF isNaN(x) \/ isNaN(y) THEN NaN
    ELSE LET e == Max2(x[2], y[2])
         IN  Norm(x[1] * Pow10(e - x[2]) + y[1] * Pow10(e - y[2]), e)

\* x * y
Mul(x, y) ==
    IF isNaN(x) \/ isNaN(y) THEN NaN ELSE Norm(x[1] * y[1], x[2] + y[2])

\* ToBoolean of a number: 0 and NaN are falsy
NumTruthy(x) == ~isNaN(x) /\ x[1] # 0

(***************************************************************************)
(* parseFloat(s): leading white space is skipped, then the longest prefix  *)
(* sign? digits? ('.' digits?)? with at least one digit is the number; NaN *)
(* when there is none.  The strings of this model hold no exponent, no     *)
(* "Infinity": those forms are not modelled.                               *)
(***************************************************************************)
parseFloat(s) ==
    LET t        == trimStart(s)
        signed   == t # "" /\ CharAt(t, 1) \in {"-", "+"}
        neg      == t # "" /\ CharAt(t, 1) = "-"
        u        == IF signed THEN SubSeq(t, 2, Len(t)) ELSE t
        nInt     == DigitPrefixLen(u)
        afterInt == SubSeq(u, nInt + 1, Len(u))
        hasDot   == afterInt # "" /\ CharAt(afterInt, 1) = "."
        fracStr  == IF hasDot THEN SubSeq(afterInt, 2, Len(afterInt)) ELSE ""
        nFrac    == DigitPrefixLen(fracStr)
        mag      == DigitsVal(SubSeq(u, 1, nInt)) * Pow10(nFrac)
                      + DigitsVal(SubSeq(fracStr, 1, nFrac))
    IN  IF nInt = 0 /\ nFrac = 0 THEN NaN
        ELSE Norm(IF neg THEN 0 - mag ELSE mag, nFrac)

(***************************************************************************)
(* parseInt(s, 10): leading white space is skipped, then sign? digits+ is  *)
(* the integer (a plain TLA+ integer here); NaN when there is no digit.    *)
(***************************************************************************)
parseInt(s) ==
    LET t      == trimStart(s)
        signed == t # "" /\ CharAt(t, 1) \in {"-", "+"}
        neg    == t # "" /\ CharAt(t, 1) = "-"
        u      == IF signed THEN SubSeq(t, 2, Len(t)) ELSE t
        n      == DigitPrefixLen(u)
        mag    == DigitsVal(SubSeq(u, 1, n))
    IN  IF n = 0 THEN NaN ELSE IntNum(IF neg THEN 0 - mag ELSE mag)

---------------------------------------------------------------------------
(* JavaScript values of unknown type: <<type, String(value)>> *)

Undefined == <<"undefined", "undefined">>
Null      == <<"null", "null">>
Str(s)    == <<"string", s>>
NumberCell(s) == <<"number", s>>

IsNullish(v) == v[1] \in {"undefined", "null"}

\* ToBoolean(v)
Truthy(v) ==
    CASE v[1] = "string" -> v[2] # ""
      [] v[1] = "number" -> NumTruthy(parseFloat(v[2]))
      [] OTHER -> FALSE

\* row[k] of a JavaScript array held as a sequence (k counted from 0)
At(arr, k) == IF k + 1 \in 1..Len(arr) THEN arr[k + 1] ELSE Undefined

---------------------------------------------------------------------------
(* src/src/utils/muscleMapping.js *)

(***************************************************************************)
(* A JavaScript object used as a mapping is the sequence of its entries    *)
(* <<key, value>> in insertion order (the order Object.entries walks), the *)
(* keys distinct.                                                          *)
(***************************************************************************)
DEFAULT_MUSCLE_MAPPINGS == <<
    <<"cable shoulder press", <<"front_delt", "middle_delt", "triceps">>>>,
    <<"shoulder press", <<"front_delt", "middle_delt", "triceps">>>>,
    <<"military press", <<"front_delt", "middle_delt", "triceps">>>>,
    <<"lateral raise", <<"middle_delt">>>>,
    <<"front raise", <<"front_delt">>>>,
    <<"rear delt", <<"rear_delt">>>>,
    <<"rear delt fly", <<"rear_delt">>>>,
    <<"face pull", <<"rear_delt", "traps", "rhomboids">>>>,
    <<"leg press", <<"quads", "glutes", "hamstrings">>>>,
    <<"squat", <<"quads", "glutes", "hamstrings", "lower_back">>>>,
    <<"leg curl", <<"hamstrings">>>>,
    <<"leg extension", <<"quads">>>>,
    <<"calf raise", <<"calves">>>>,
    <<"leg raise", <<"hip_flexors", "abs">>>>,
    <<"romanian deadlift", <<"hamstrings", "glutes", "lower_back">>>>,
    <<"hip thrust", <<"glutes", "hamstrings">>>>,
    <<"lunge", <<"quads", "glutes", "hamstrings">>>>,
    <<"pec fly", <<"mid_chest">>>>,
    <<"pec deck", <<"mid_chest">>>>,
    <<"chest fly", <<"mid_chest">>>>,
    <<"con. chest press", <<"mid_chest", "triceps">>>>,
    <<"chest press", <<"mid_chest", "front_delt", "triceps">>>>,
    <<"barbell chest press", <<"mid_chest", "front_delt", "triceps">>>>,
    <<"bench press", <<"mid_chest", "front_delt", "triceps">>>>,
    <<"incline bench press", <<"upper_chest", "front_delt", "triceps">>>>,
    <<"incline press", <<"upper_chest", "front_delt", "triceps">>>>,
    <<"decline press", <<"lower_chest", "triceps">>>>,
    <<"dips", <<"lower_chest", "triceps", "front_delt">>>>,
    <<"div. seated row", <<"lats", "rhomboids", "biceps">>>>,
    <<"seated row", <<"lats", "rhomboids", "biceps", "rear_delt">>>>,
    <<"cable row", <<"lats", "rhomboids", "biceps">>>>,
    <<"lat pull down", <<"lats", "biceps">>>>,
    <<"lat pull down (dual handle)", <<"lats", "biceps", "rhomboids">>>>,
    <<"lat pulldown", <<"lats", "biceps">>>>,
    <<"pull up", <<"lats", "biceps", "rhomboids">>>>,
    <<"chin up", <<"lats", "biceps">>>>,
    <<"barbell row", <<"lats", "rhomboids", "rear_delt", "biceps">>>>,
    <<"t-bar row", <<"lats", "rhomboids", "rear_delt">>>>,
    <<"back extension", <<"lower_back", "glutes">>>>,
    <<"deadlift", <<"lower_back", "glutes", "hamstrings", "traps">>>>,
    <<"shrug", <<"traps">>>>,
    <<"bicep curl", <<"biceps">>>>,
    <<"hammer curl", <<"biceps", "forearms">>>>,
    <<"preacher curl", <<"biceps">>>>,
    <<"concentration curl", <<"biceps">>>>,
    <<"tricep ext", <<"triceps_long", "triceps_lateral">>>>,
    <<"tricep extension", <<"triceps_long", "triceps_lateral">>>>,
    <<"tricep pushdown", <<"triceps_lateral">>>>,
    <<"skull crusher", <<"triceps_long", "triceps_medial">>>>,
    <<"close grip bench", <<"triceps", "mid_chest">>>>,
    <<"wrist curl", <<"forearms">>>>,
    <<"plank", <<"abs", "obliques">>>>,
    <<"crunch", <<"abs">>>>,
    <<"sit up", <<"abs", "hip_flexors">>>>,
    <<"russian twist", <<"obliques">>>>,
    <<"cable crunch", <<"abs">>>>,
    <<"hanging leg raise", <<"abs", "hip_flexors">>>>,
    <<"ab wheel", <<"abs", "obliques">>>> >>

HasKey(m, k) == \E j \in 1..Len(m) : m[j][1] = k

Get(m, k) == m[CHOOSE j \in 1..Len(m) : m[j][1] = k][2]

\* the test of both partial-match loops
PartialMatch(normalizedName, key) ==
    includes(normalizedName, key) \/ includes(key, normalizedName)

\* for (const [key, muscles] of Object.entries(m)) if (...) return muscles
HasPartial(m, normalizedName) ==
    \E j \in 1..Len(m) : PartialMatch(normalizedName, m[j][1])

FirstPartial(m, normalizedName) ==
    m[CHOOSE j \in 1..Len(m) :
          /\ PartialMatch(normalizedName, m[j][1])
          /\ \A h \in 1..(j - 1) : ~PartialMatch(normalizedName, m[h][1])][2]

\* the default table consulted before the custom mapping
getMuscleGroupsDefaultFirst(name, cm) ==
    LET normalizedName == trim(toLowerCase(name))
    IN  IF HasKey(DEFAULT_MUSCLE_MAPPINGS, normalizedName)
          THEN Get(DEFAULT_MUSCLE_MAPPINGS, normalizedName)
        ELSE IF HasKey(cm, normalizedName) THEN Get(cm, normalizedName)
        ELSE IF HasPartial(DEFAULT_MUSCLE_MAPPINGS, normalizedName)
          THEN FirstPartial(DEFAULT_MUSCLE_MAPPINGS, normalizedName)
        ELSE IF HasPartial(cm, normalizedName) THEN FirstPartial(cm, normalizedName)
        ELSE <<>>

\* the custom partial matches consulted before the default table's
getMuscleGroupsCustomPartialFirst(name, cm) ==
    LET normalizedName == trim(toLowerCase(name))
    IN  IF HasKey(cm, normalizedName) THEN Get(cm, normalizedName)
        ELSE IF HasKey(DEFAULT_MUSCLE_MAPPINGS, normalizedName)
          THEN Get(DEFAULT_MUSCLE_MAPPINGS, normalizedName)
        ELSE IF HasPartial(cm, normalizedName) THEN FirstPartial(cm, normalizedName)
        ELSE IF HasPartial(DEFAULT_MUSCLE_MAPPINGS, normalizedName)
          THEN FirstPartial(DEFAULT_MUSCLE_MAPPINGS, normalizedName)
        ELSE <<>>

\* the name looked up as typed, neither lower-cased nor trimmed
getMuscleGroupsAsTyped(name, cm) ==
    LET normalizedName == name
    IN  IF HasKey(cm, normalizedName) THEN Get(cm, normalizedName)
        ELSE IF HasKey(DEFAULT_MUSCLE_MAPPINGS, normalizedName)
          THEN Get(DEFAULT_MUSCLE_MAPPINGS, normalizedName)
        ELSE IF HasPartial(DEFAULT_MUSCLE_MAPPINGS, normalizedName)
          THEN FirstPartial(DEFAULT_MUSCLE_MAPPINGS, normalizedName)
        ELSE IF HasPartial(cm, normalizedName) THEN FirstPartial(cm, normalizedName)
        ELSE <<>>

getMuscleGroups(name, cm) ==
    LET normalizedName == trim(toLowerCase(name))
    IN  IF HasKey(cm, normalizedName) THEN Get(cm, normalizedName)
        ELSE IF HasKey(DEFAULT_MUSCLE_MAPPINGS, normalizedName)
          THEN Get(DEFAULT_MUSCLE_MAPPINGS, normalizedName)
        ELSE IF HasPartial(DEFAULT_MUSCLE_MAPPINGS, normalizedName)
          THEN FirstPartial(DEFAULT_MUSCLE_MAPPINGS, normalizedName)
        ELSE IF HasPartial(cm, normalizedName) THEN FirstPartial(cm, normalizedName)
        ELSE <<>>

---------------------------------------------------------------------------
(* src/src/utils/dataParser.js *)

\* value.split(',').map(v => parseFloat(v.trim()))
ParsedTokens(s) ==
    LET tokens == split(s, ",")
    IN  [k \in 1..Len(tokens) |-> parseFloat(trim(tokens[k]))]

\* .filter(v => v) in place of .filter(v => !isNaN(v)): zeros are dropped too
parseCommaSeparatedTruthy(v) ==
    IF ~Truthy(v) \/ v[1] # "string" THEN <<>>
    ELSE SelectSeq(ParsedTokens(v[2]), LAMBDA x : NumTruthy(x))

parseCommaSeparated(v) ==
    IF ~Truthy(v) \/ v[1] # "string" THEN <<>>
    ELSE SelectSeq(ParsedTokens(v[2]), LAMBDA x : ~isNaN(x))

\* x || 0 on a number
OrZero(x) == IF NumTruthy(x) THEN x ELSE Zero

\* v?.toString() || ''
ToStringOrEmpty(v) == IF IsNullish(v) THEN "" ELSE v[2]

\* reps[i] || reps[reps.length - 1] || 0, for the set at position k = i + 1
RepCount(reps, k) ==
    IF k <= Len(reps) /\ NumTruthy(reps[k]) THEN reps[k]
    ELSE IF Len(reps) > 0 /\ NumTruthy(reps[Len(reps)]) THEN reps[Len(reps)]
    ELSE Zero

\* sets.reduce((sum, weight, i) => sum + weight * repCount, 0) over the first k sets
RECURSIVE ReduceVolume(_, _, _)
ReduceVolume(sets, reps, k) ==
    IF k = 0 THEN Zero
    ELSE Add(ReduceVolume(sets, reps, k - 1), Mul(sets[k], RepCount(reps, k)))

\* the name test of parseExerciseRow: !name || header-like
NameRejected(c0) ==
    LET name == trim(c0[2])
    IN  \/ IsNullish(c0)
        \/ name = ""
        \/ includes(toLowerCase(name), "exercise")
        \/ includes(toLowerCase(name), "s1")

\* sets.length === 0 && maxWeight === 0 && volume === 0, dropping the weight test
IsPlaceholderSetsOnly(sets, maxWeight, volume) == Len(sets) = 0

\* sets.length === 0 && maxWeight === 0 && volume === 0
IsPlaceholder(sets, maxWeight, volume) ==
    Len(sets) = 0 /\ maxWeight = Zero /\ volume = Zero

\* the volume recomputed from sets x reps whenever both are there
CalculatedVolumeAlways(volume, sets, reps) ==
    IF Len(sets) > 0 /\ Len(reps) > 0
    THEN ReduceVolume(sets, reps, Len(sets))
    ELSE volume

\* let calculatedVolume = volume; if (calculatedVolume === 0 && ...) calculatedVolume = ...
CalculatedVolume(volume, sets, reps) ==
    IF volume = Zero /\ Len(sets) > 0 /\ Len(reps) > 0
    THEN ReduceVolume(sets, reps, Len(sets))
    ELSE volume

\* the row's cells once read: <<>> (null) for a placeholder row, else the exercise
ExerciseOfCells(name, sets, maxWeight, reps, volume, cm) ==
    IF IsPlaceholder(sets, maxWeight, volume) THEN <<>>
    ELSE << [name         |-> name,
             sets         |-> sets,
             maxWeight    |-> maxWeight,
             reps         |-> reps,
             volume       |-> CalculatedVolume(volume, sets, reps),
             muscleGroups |-> getMuscleGroups(name, cm)] >>

\* the returned exercise in a one-element sequence, <<>> for null
parseExerciseRow(r, cm) ==
    IF NameRejected(At(r, 0)) THEN <<>>
    ELSE ExerciseOfCells(trim(At(r, 0)[2]),
                         parseCommaSeparated(Str(ToStringOrEmpty(At(r, 1)))),
                         OrZero(parseFloat(At(r, 2)[2])),
                         parseCommaSeparated(Str(ToStringOrEmpty(At(r, 3)))),
                         OrZero(parseFloat(At(r, 4)[2])),
                         cm)

(***************************************************************************)
(* Date.  A Date is its time value, counted in days from 1970-01-01 to its  *)
(* local midnight (the parser never sets a time of day): the number        *)
(* <<t, 0>> for a valid Date, NaN for an Invalid Date.                     *)
(***************************************************************************)
InvalidDate == NaN

getTime(date) == date

\* days from 1970-01-01 to the proleptic Gregorian date y-m-d (m in 1..12)
DaysFromCivil(y, m, d) ==
    LET yy  == IF m <= 2 THEN y - 1 ELSE y
        era == yy \div 400
        yoe == yy - era * 400
        mp  == IF m > 2 THEN m - 3 ELSE m + 9
        doy == (153 * mp + 2) \div 5 + d - 1
        doe == yoe * 365 + yoe \div 4 - yoe \div 100 + doy
    IN  era * 146097 + doe - 719468

\* <<year, month (1..12), day>> of the day number z
CivilFromDays(z) ==
    LET zz  == z + 719468
        era == zz \div 146097
        doe == zz - era * 146097
        yoe == (doe - doe \div 1460 + doe \div 36524 - doe \div 146096) \div 365
        doy == doe - (365 * yoe + yoe \div 4 - yoe \div 100)
        mp  == (5 * doy + 2) \div 153
        d   == doy - (153 * mp + 2) \div 5 + 1
        m   == IF mp < 10 THEN mp + 3 ELSE mp - 9
        y   == yoe + era * 400
    IN  <<IF m <= 2 THEN y + 1 ELSE y, m, d>>

(***************************************************************************)
(* new Date(year, month, day) on numbers: NaN in any argument gives an     *)
(* Invalid Date; a year of 0..99 means 1900 + year; a month outside 0..11  *)
(* carries into the year and a day outside the month carries into the      *)
(* neighbouring months (ECMAScript MakeDay).                               *)
(***************************************************************************)
NewDate(year, month, day) ==
    IF isNaN(year) \/ isNaN(month) \/ isNaN(day) THEN InvalidDate
    ELSE LET y  == IF year[1] \in 0..99 THEN 1900 + year[1] ELSE year[1]
             ym == y + month[1] \div 12
             mn == month[1] % 12
         IN  IntNum(DaysFromCivil(ym, mn + 1, 1) + day[1] - 1)

getFullYear(date) == CivilFromDays(date[1])[1]
getMonth(date)    == CivilFromDays(date[1])[2] - 1
getDate(date)     == CivilFromDays(date[1])[3]

\* the pivot taken at year >= 50
FullYearPivot50(year) ==
    IF ~isNaN(year) /\ year[1] < 100
    THEN (IF year[1] >= 50 THEN Add(IntNum(1900), year) ELSE Add(IntNum(2000), year))
    ELSE year

\* year < 100 ? (year > 50 ? 1900 + year : 2000 + year) : year
FullYear(year) ==
    IF ~isNaN(year) /\ year[1] < 100
    THEN (IF year[1] > 50 THEN Add(IntNum(1900), year) ELSE Add(IntNum(2000), year))
    ELSE year

\* the returned Date in a one-element sequence, <<>> for null
parseDateString(dateStr) ==
    IF ~Truthy(dateStr) THEN <<>>
    ELSE LET parts == split(dateStr[2], "/")
         IN  IF Len(parts) = 3
             THEN LET month == Add(parseInt(parts[1]), IntNum(-1))
                      day   == parseInt(parts[2])
                      year  == parseInt(parts[3])
                      date  == NewDate(FullYear(year), month, day)
                  IN  IF ~isNaN(getTime(date)) THEN <<date>> ELSE <<>>
             ELSE <<>>

(***************************************************************************)
(* parseWorksheet as one value: what the loop of the actions                *)
(* ParseWorksheetStart .. ParseWorksheetReturn below leaves behind.  The    *)
(* analytics functions take lists of these workout objects.                 *)
(***************************************************************************)

\* exercises after the for loop has handled rows k .. of rs (k counts from 1)
RECURSIVE WorksheetExercises(_, _, _)
WorksheetExercises(rs, cm, k) ==
    IF k > Len(rs) THEN <<>>
    ELSE parseExerciseRow(rs[k], cm) \o WorksheetExercises(rs, cm, k + 1)

\* totalVolume after the first k accepted exercises: totalVolume += exercise.volume
RECURSIVE WorksheetVolume(_, _)
WorksheetVolume(exs, k) ==
    IF k = 0 THEN Zero ELSE Add(WorksheetVolume(exs, k - 1), exs[k].volume)

\* the returned workout: date, dateObject, exercises, totalVolume, exerciseCount
Worksheet(name, exs) ==
    [date          |-> name,
     dateObject    |-> parseDateString(name),
     exercises     |-> exs,
     totalVolume   |-> WorksheetVolume(exs, Len(exs)),
     exerciseCount |-> Len(exs)]

parseWorksheet(name, rs, cm) == Worksheet(name, WorksheetExercises(rs, cm, 2))

(***************************************************************************)
(* calculateStats(workouts)                                                *)
(***************************************************************************)

\* x < y on numbers; false when either is NaN
Lt(x, y) ==
    IF isNaN(x) \/ isNaN(y) THEN FALSE
    ELSE LET e == Max2(x[2], y[2])
         IN  x[1] * Pow10(e - x[2]) < y[1] * Pow10(e - y[2])

\* workouts.reduce((sum, w) => sum + w.exerciseCount, 0) over the first k workouts
RECURSIVE ReduceExerciseCount(_, _)
ReduceExerciseCount(ws, k) ==
    IF k = 0 THEN 0 ELSE ReduceExerciseCount(ws, k - 1) + ws[k].exerciseCount

\* the last workout's totalVolume in place of the sum
ReduceTotalVolumeLast(ws, k) ==
    IF k = 0 THEN Zero ELSE ws[k].totalVolume

\* workouts.reduce((sum, w) => sum + w.totalVolume, 0) over the first k workouts
RECURSIVE ReduceTotalVolume(_, _)
ReduceTotalVolume(ws, k) ==
    IF k = 0 THEN Zero ELSE Add(ReduceTotalVolume(ws, k - 1), ws[k].totalVolume)

\* obj[key] = val on a mapping: a new key goes last, a known key keeps its place
Put(m, key, val) ==
    IF HasKey(m, key)
    THEN [j \in 1..Len(m) |-> IF m[j][1] = key THEN <<key, val>> ELSE m[j]]
    ELSE Append(m, <<key, val>>)

\* Object.values(m)
Values(m) == [j \in 1..Len(m) |-> m[j][2]]

\* a record replaced by every weight at least as great (>= in place of >)
PrsAfterExerciseOrEqual(prs, w, ex) ==
    LET name == toLowerCase(ex.name)
    IN  IF ~HasKey(prs, name) \/ ~Lt(ex.maxWeight, Get(prs, name).weight)
        THEN Put(prs, name, [name |-> ex.name, weight |-> ex.maxWeight, date |-> w.date])
        ELSE prs

\* the body of the inner for loop: prs after exercise ex of workout w
PrsAfterExercise(prs, w, ex) ==
    LET name == toLowerCase(ex.name)
    IN  IF ~HasKey(prs, name) \/ Lt(Get(prs, name).weight, ex.maxWeight)
        THEN Put(prs, name, [name |-> ex.name, weight |-> ex.maxWeight, date |-> w.date])
        ELSE prs

\* prs after the first k exercises of workout w, starting from prs
RECURSIVE PrsAfterExercises(_, _, _)
PrsAfterExercises(prs, w, k) ==
    IF k = 0 THEN prs
    ELSE PrsAfterExercise(PrsAfterExercises(prs, w, k - 1), w, w.exercises[k])

\* prs after the first k workouts, starting from {}
RECURSIVE PrsAfterWorkouts(_, _)
PrsAfterWorkouts(ws, k) ==
    IF k = 0 THEN <<>>
    ELSE PrsAfterExercises(PrsAfterWorkouts(ws, k - 1), ws[k], Len(ws[k].exercises))

\* pr => pr.weight > 0
IsRecord(pr) == Lt(Zero, pr.weight)

calculateStats(ws) ==
    LET prs == PrsAfterWorkouts(ws, Len(ws))
    IN  [totalWorkouts   |-> Len(ws),
         totalVolume     |-> ReduceTotalVolume(ws, Len(ws)),
         totalExercises  |-> ReduceExerciseCount(ws, Len(ws)),
         personalRecords |-> SelectSeq(Values(prs), IsRecord),
         prCount         |-> Len(SelectSeq(Values(prs), IsRecord))]

(***************************************************************************)
(* calculateMuscleVolume(workouts).  A quotient of two numbers need not be  *)
(* a decimal, so the accumulated volumes are exact fractions [num, den]     *)
(* with den > 0, in lowest terms.                                           *)
(***************************************************************************)

Abs(n) == IF n < 0 THEN -n ELSE n

RECURSIVE GCD(_, _)
GCD(a, b) == IF b = 0 THEN a ELSE GCD(b, a % b)

Frac(n, d) ==
    LET g == GCD(Abs(n), d) IN [num |-> n \div g, den |-> d \div g]

\* the decimal x as a fraction
FracOf(x) == Frac(x[1], Pow10(x[2]))

FracZero == Frac(0, 1)

\* a + b
FracAdd(a, b) == Frac(a.num * b.den + b.num * a.den, a.den * b.den)

\* x / n for a number x and an integer n >= 1
FracDiv(x, n) == Frac(x[1], Pow10(x[2]) * n)

\* Math.round: the nearest integer, a half rounded up
MathRound(f) == (2 * f.num + f.den) \div (2 * f.den)

\* set.add(x) on a Set kept in insertion order
SetAdd(set, x) ==
    IF \E j \in 1..Len(set) : set[j] = x THEN set ELSE Append(set, x)

\* each share rounded before it is added
MuscleVolumeAddRounded(mv, muscle, volumePerMuscle, name) ==
    LET data == IF HasKey(mv, muscle) THEN Get(mv, muscle)
                ELSE [volume |-> FracZero, exercises |-> <<>>, workouts |-> 0]
    IN  Put(mv, muscle,
            [volume    |-> FracAdd(data.volume, Frac(MathRound(volumePerMuscle), 1)),
             exercises |-> SetAdd(data.exercises, name),
             workouts  |-> data.workouts])

\* the body of the innermost loop: the bucket of muscle is created when it is
\* missing, then the share and the exercise name are added to it
MuscleVolumeAdd(mv, muscle, volumePerMuscle, name) ==
    LET data == IF HasKey(mv, muscle) THEN Get(mv, muscle)
                ELSE [volume |-> FracZero, exercises |-> <<>>, workouts |-> 0]
    IN  Put(mv, muscle,
            [volume    |-> FracAdd(data.volume, volumePerMuscle),
             exercises |-> SetAdd(data.exercises, name),
             workouts  |-> data.workouts])

\* muscleVolume after the first k muscle groups of exercise ex
RECURSIVE MuscleVolumeAfterMuscles(_, _, _)
MuscleVolumeAfterMuscles(mv, ex, k) ==
    IF k = 0 THEN mv
    ELSE MuscleVolumeAdd(MuscleVolumeAfterMuscles(mv, ex, k - 1),
                         ex.muscleGroups[k],
                         FracDiv(ex.volume, Max2(Len(ex.muscleGroups), 1)),
                         ex.name)

\* muscleVolume after the first k exercises of workout w
RECURSIVE MuscleVolumeAfterExercises(_, _, _)
MuscleVolumeAfterExercises(mv, w, k) ==
    IF k = 0 THEN mv
    ELSE MuscleVolumeAfterMuscles(MuscleVolumeAfterExercises(mv, w, k - 1),
                                  w.exercises[k], Len(w.exercises[k].muscleGroups))

\* muscleVolume after the first k workouts, starting from {}
RECURSIVE MuscleVolumeAfterWorkouts(_, _)
MuscleVolumeAfterWorkouts(ws, k) ==
    IF k = 0 THEN <<>>
    ELSE MuscleVolumeAfterExercises(MuscleVolumeAfterWorkouts(ws, k - 1), ws[k],
                                    Len(ws[k].exercises))

\* Object.fromEntries(Object.entries(muscleVolume).map(...))
MuscleVolumeEntries(mv) ==
    [j \in 1..Len(mv) |->
        <<mv[j][1], [volume    |-> MathRound(mv[j][2].volume),
                     exercises |-> mv[j][2].exercises]>>]

(***************************************************************************)
(* calculateExerciseHistory(exerciseName, currentDate, allWorkouts).  The   *)
(* time value of a Date is a number of days here, so 7 * 24 * 60 * 60 *     *)
(* 1000 ms is 7; new Date() is the argument now.                            *)
(***************************************************************************)

\* workout.exercises.find(e => e.name.toLowerCase().trim() === normalizedName),
\* <<>> for undefined
FindExercise(w, normalizedName) ==
    LET found == {k \in 1..Len(w.exercises) :
                     trim(toLowerCase(w.exercises[k].name)) = normalizedName}
    IN  IF found = {} THEN <<>>
        ELSE <<w.exercises[CHOOSE k \in found : \A h \in found : k <= h]>>

\* only the workouts after currentDate are skipped (> in place of >=)
SkippedWorkoutAfterOnly(w, cd) ==
    \/ w.dateObject = <<>>
    \/ (cd # <<>> /\ Lt(cd[1], w.dateObject[1]))

\* !workout.dateObject || (currentDate && workout.dateObject >= currentDate)
SkippedWorkout(w, cd) ==
    \/ w.dateObject = <<>>
    \/ (cd # <<>> /\ ~Lt(w.dateObject[1], cd[1]))

\* an entry pushed for every listing of the exercise in a workout
RECURSIVE HistoricalDataEveryListing(_, _, _, _)
HistoricalDataEveryListing(ws, k, normalizedName, cd) ==
    IF k = 0 THEN <<>>
    ELSE LET before == HistoricalDataEveryListing(ws, k - 1, normalizedName, cd)
             listed == SelectSeq(ws[k].exercises,
                                 LAMBDA e : trim(toLowerCase(e.name)) = normalizedName)
         IN  IF SkippedWorkout(ws[k], cd) THEN before
             ELSE before \o [j \in 1..Len(listed) |->
                                [date      |-> ws[k].dateObject[1],
                                 volume    |-> listed[j].volume,
                                 maxWeight |-> listed[j].maxWeight,
                                 sets      |-> listed[j].sets,
                                 reps      |-> listed[j].reps]]

\* historicalData after the first k workouts
RECURSIVE HistoricalData(_, _, _, _)
HistoricalData(ws, k, normalizedName, cd) ==
    IF k = 0 THEN <<>>
    ELSE LET before == HistoricalData(ws, k - 1, normalizedName, cd)
             found  == FindExercise(ws[k], normalizedName)
         IN  IF SkippedWorkout(ws[k], cd) \/ found = <<>> THEN before
             ELSE Append(before, [date      |-> ws[k].dateObject[1],
                                  volume    |-> found[1].volume,
                                  maxWeight |-> found[1].maxWeight,
                                  sets      |-> found[1].sets,
                                  reps      |-> found[1].reps])

\* h put into a list sorted newest first, behind the entries that are not older
RECURSIVE InsertNewestFirst(_, _)
InsertNewestFirst(sorted, h) ==
    IF sorted = <<>> THEN <<h>>
    ELSE IF Lt(Head(sorted).date, h.date) THEN <<h>> \o sorted
    ELSE <<Head(sorted)>> \o InsertNewestFirst(Tail(sorted), h)

\* data.sort((a, b) => b.date - a.date): stable, newest first
RECURSIVE SortNewestFirst(_)
SortNewestFirst(data) ==
    IF data = <<>> THEN <<>>
    ELSE InsertNewestFirst(SortNewestFirst(SubSeq(data, 1, Len(data) - 1)), data[Len(data)])

\* historicalData.filter(h => h.date >= cutoff)
RECURSIVE FilterSince(_, _)
FilterSince(data, cutoff) ==
    IF data = <<>> THEN <<>>
    ELSE (IF ~Lt(Head(data).date, cutoff) THEN <<Head(data)>> ELSE <<>>)
         \o FilterSince(Tail(data), cutoff)

\* data.reduce((acc, d) => acc + d.volume, 0)
RECURSIVE ReduceField(_, _, _)
ReduceField(data, k, field) ==
    IF k = 0 THEN Zero ELSE Add(ReduceField(data, k - 1, field), data[k][field])

\* <<>> stands for null
calcAvg(data) ==
    IF Len(data) = 0 THEN <<>>
    ELSE <<MathRound(FracDiv(ReduceField(data, Len(data), "volume"), Len(data)))>>

calcMaxAvg(data) ==
    IF Len(data) = 0 THEN <<>>
    ELSE <<MathRound(FracDiv(ReduceField(data, Len(data), "maxWeight"), Len(data)))>>

WindowAvg(data) ==
    [volume |-> calcAvg(data), maxWeight |-> calcMaxAvg(data), sessions |-> Len(data)]

\* newDate is what new Date() gives during the call
calculateExerciseHistory(name, cd, allWorkouts, newDate) ==
    LET normalizedName == trim(toLowerCase(name))
        historicalData ==
            SortNewestFirst(HistoricalData(allWorkouts, Len(allWorkouts), normalizedName, cd))
        nowDate      == IF cd # <<>> THEN cd[1] ELSE newDate
        oneWeekAgo   == Add(getTime(nowDate), IntNum(-7))
        twoWeeksAgo  == Add(getTime(nowDate), IntNum(-14))
        fourWeeksAgo == Add(getTime(nowDate), IntNum(-28))
    IN  [previousSession |-> IF Len(historicalData) > 0 THEN <<historicalData[1]>> ELSE <<>>,
         oneWeekAvg      |-> WindowAvg(FilterSince(historicalData, oneWeekAgo)),
         twoWeekAvg      |-> WindowAvg(FilterSince(historicalData, twoWeeksAgo)),
         fourWeekAvg     |-> WindowAvg(FilterSince(historicalData, fourWeeksAgo)),
         allTimeAvg      |-> WindowAvg(historicalData)]

---------------------------------------------------------------------------
(* Inputs *)

\* the characters of the strings drawn exhaustively for parseCommaSeparated
CsvAlphabet == {"1", "0", ",", " ", "a", ".", "-"}

RECURSIVE Strings(_)
Strings(n) ==
    IF n = 0 THEN {""}
    ELSE LET shorter == Strings(n - 1)
         IN  shorter \cup {s \o c : s \in shorter, c \in CsvAlphabet}

CsvInputs ==
    {Str(s) : s \in Strings(MaxLen)}
        \cup {Str("100,100"), Str("65, 90, 90"), Str("8,8,8,"), Str("100, abc, 200")}
        \cup {Null, Undefined, NumberCell("5"), NumberCell("0")}

NoMappings == <<>>

CustomMappingsPool == {
    NoMappings,
    << <<"bicep curl", <<"biceps", "forearms">>>> >>,
    << <<"leg curl", <<"x">>>> >>,
    << <<"some other exercise", <<"abs">>>> >>,
    << <<"farmer walk", <<"forearms", "traps">>>>, <<"walk", <<"calves">>>> >>,
    << <<"curl", <<"x">>>> >>,
    << <<"zercher carry", <<>>>>, <<"dumbbell shoulder press", <<"front_delt">>>> >> }

ExerciseNamePool == {
    "bicep curl", "Bicep Curl", "  bicep curl  ", "leg curl", "  Leg Curl",
    "cable shoulder press", "dumbbell shoulder press", "dumbbell hammer curl",
    "totally unknown exercise xyz", "curl", "press", "lat pull down (dual handle)",
    "zercher carry", "Farmer Walk", "walk", "long walk", "" }

RowNamePool == {"", "  ", "Exercise", "S1", "Press1", "Leg curl", " Bicep Curl ",
                "Zercher carry"}
RowSetsPool == {"", "100,100", "125,125, 120, 120", "abc", "0", "12.5,10"}
RowMaxPool  == {"", "0", "100", "abc", "12.5"}
RowRepsPool == {"", "10,10", "8,8,8,", "0,10", "10,0", "0", "8"}
RowVolPool  == {"", "0", "2000", "abc", "0.0", "-5"}

FullRows ==
    {<<Str(n), Str(s), Str(m), Str(r), Str(v)>> :
        n \in RowNamePool, s \in RowSetsPool, m \in RowMaxPool,
        r \in RowRepsPool, v \in RowVolPool}

\* the sheet API drops trailing empty cells, and a cell may be null
RowInputs ==
    FullRows
        \cup {SubSeq(r, 1, n) : r \in FullRows, n \in 0..4}
        \cup {<<Null, Str("100"), Str("100"), Str("10"), Null>>,
              <<Str("Leg curl"), Null, Null, Null, Null>>,
              <<Str("Leg curl"), NumberCell("100"), NumberCell("100"),
                NumberCell("10"), NumberCell("0")>>}

Row5(n, s, m, r, v) == <<Str(n), Str(s), Str(m), Str(r), Str(v)>>

SheetRowPool == {
    Row5("Exercise", "s1, s2.. sN", "Max (lbs)", "s1_rps, s2_rps", "Volume"),
    Row5("Cable shoulder press", "100,100", "100", "10,10", "2000"),
    Row5("Leg curl", "125,125, 120, 120", "125", "8,8,8,", ""),
    Row5("Pec fly", "", "", "", ""),
    <<Str("Con. Chest press"), Str("50"), Str("50")>>,
    <<>> }

SheetNamePool == {Str("1/29/2026"), Str("Template")}

RECURSIVE SeqsUpTo(_, _)
SeqsUpTo(S, n) ==
    IF n = 0 THEN {<<>>}
    ELSE LET shorter == SeqsUpTo(S, n - 1)
         IN  shorter \cup {Append(q, x) : q \in shorter, x \in S}

\* the decimal text of a natural number
RECURSIVE NatToString(_)
NatToString(n) ==
    IF n < 10 THEN CharAt("0123456789", n + 1)
    ELSE NatToString(n \div 10) \o CharAt("0123456789", (n % 10) + 1)

YearPool == {"0", "00", "24", "50", "51", "99", "100", "1900", "2000", "2023",
             "2024", "2026", "-5", "abc", ""}

MalformedLabels ==
    {Str(""), Null, Undefined, Str("invalid"), Str("1/29"), Str("1/29/2026/4"),
     Str("2026-01-29"), Str("a/b/c"), Str("//"), Str("1/x/2026"), Str(" 1/ 29/ 2026"),
     Str("1x/29/2026"), Str("1/29/2026abc")}

DateInputs ==
    {Str(NatToString(m) \o "/" \o NatToString(d) \o "/" \o y) :
        m \in 0..MaxMonth, d \in 0..MaxDay, y \in YearPool}
        \cup MalformedLabels

\* the header row of a worksheet
HeaderRow == Row5("Exercise", "Sets", "Max", "Reps", "Volume")

\* worksheets for the analytics functions: the two of the test 'tracks best
\* PR across multiple workouts', then the same exercise in lower case with
\* the same best weight, a body-weight exercise (no weight), an assisted one
\* (a negative weight), one without a muscle group, and an undated sheet
\* holding a placeholder row only
WorkoutPool == {
    parseWorksheet(Str("1/28/2026"),
                   <<HeaderRow, Row5("Bench Press", "135,155", "155", "10,8", "2590")>>,
                   NoMappings),
    parseWorksheet(Str("1/29/2026"),
                   <<HeaderRow, Row5("Bench Press", "145,165,185", "185", "8,6,4", "3060")>>,
                   NoMappings),
    parseWorksheet(Str("1/30/2026"),
                   <<HeaderRow, Row5("bench press", "185", "185", "5", ""),
                                Row5("Plank", "61", "", "1", "")>>,
                   NoMappings),
    parseWorksheet(Str("2/1/2026"),
                   <<HeaderRow, Row5("Assisted pull up", "-20,-20", "-20", "8,8", ""),
                                Row5("Zercher carry", "50", "50", "10", "")>>,
                   NoMappings),
    parseWorksheet(Str("Template"),
                   <<HeaderRow, Row5("Pec fly", "", "", "", "")>>,
                   NoMappings) }

\* the Date of a sheet label
DateOf(label) == parseDateString(Str(label))[1]

\* a worksheet holding one exercise
OneExercise(label, name, sets, max, reps, volume) ==
    parseWorksheet(Str(label), <<HeaderRow, Row5(name, sets, max, reps, volume)>>, NoMappings)

\* the workouts around 1/29/2026 for calculateExerciseHistory: that day, the
\* day before, 7, 14, 28 and 29 days before, a week after, an undated sheet,
\* a session without weight (volume 0) and a workout of another exercise; the
\* workout of 14 days before lists the exercise twice
HistoryWorkoutPool == {
    OneExercise("1/29/2026", "Bench Press", "145,165,185", "185", "8,6,4", "3060"),
    OneExercise("1/28/2026", "Bench Press", "135,155", "155", "10,8", "2590"),
    OneExercise("1/22/2026", "bench press", "150", "150", "9", ""),
    parseWorksheet(Str("1/15/2026"),
                   <<HeaderRow, Row5("Bench Press", "100", "100", "10", ""),
                                Row5("bench press", "110", "110", "10", "")>>,
                   NoMappings),
    OneExercise("1/1/2026", "Bench Press", "90", "90", "10", ""),
    OneExercise("12/31/2025", "Bench Press", "80", "80", "10", ""),
    OneExercise("2/5/2026", "Bench Press", "200", "200", "5", ""),
    OneExercise("Template", "Bench Press", "300", "300", "1", ""),
    OneExercise("1/27/2026", "Bench Press", "0", "", "10", ""),
    OneExercise("1/26/2026", "Leg curl", "125", "125", "8", "") }

\* the names asked for
HistoryNamePool == {"Bench Press", "  bench PRESS "}

\* <<currentDate, new Date()>>: the date of the workout shown, or null for a
\* workout whose sheet has no date, and the time of the call (a midnight, a noon)
HistoryCallPool == {
    << <<DateOf("1/29/2026")>>, DateOf("3/1/2026") >>,
    << <<>>, DateOf("1/29/2026") >>,
    << <<>>, Add(DateOf("1/29/2026"), <<5, 1>>) >> }

(***************************************************************************)
(* calculateChange(current, previous): previous is <<>> for null and <<p>>  *)
(* for the number p.                                                        *)
(***************************************************************************)

\* x / y for numbers x and y, y not 0
FracQuot(x, y) ==
    LET n == x[1] * Pow10(y[2])
        d == y[1] * Pow10(x[2])
    IN  IF d < 0 THEN Frac(-n, -d) ELSE Frac(n, d)

\* f.toFixed(1): the magnitude rounded to tenths, a half rounded up, behind
\* the sign of f
toFixed1(f) ==
    LET tenths == (20 * Abs(f.num) + f.den) \div (2 * f.den)
    IN  (IF f.num < 0 THEN "-" ELSE "")
        \o NatToString(tenths \div 10) \o "." \o NatToString(tenths % 10)

\* the plus sign put before every change that is not negative
calculateChangePlusZero(cur, prev) ==
    IF prev = <<>> \/ prev[1] = Zero
    THEN [percentage |-> <<>>, direction |-> "neutral", display |-> "N/A"]
    ELSE LET diff   == Add(cur, Mul(IntNum(-1), prev[1]))
             ratio  == FracQuot(diff, prev[1])
             pct    == Frac(ratio.num * 100, ratio.den)
         IN  [percentage |-> <<pct>>,
              direction  |-> IF pct.num > 0 THEN "up"
                             ELSE IF pct.num < 0 THEN "down" ELSE "neutral",
              display    |-> IF pct.num >= 0 THEN "+" \o toFixed1(pct) \o "%"
                             ELSE toFixed1(pct) \o "%"]

\* percentage is <<>> for null
calculateChange(cur, prev) ==
    IF prev = <<>> \/ prev[1] = Zero
    THEN [percentage |-> <<>>, direction |-> "neutral", display |-> "N/A"]
    ELSE LET diff   == Add(cur, Mul(IntNum(-1), prev[1]))
             ratio  == FracQuot(diff, prev[1])
             pct    == Frac(ratio.num * 100, ratio.den)
         IN  [percentage |-> <<pct>>,
              direction  |-> IF pct.num > 0 THEN "up"
                             ELSE IF pct.num < 0 THEN "down" ELSE "neutral",
              display    |-> IF pct.num > 0 THEN "+" \o toFixed1(pct) \o "%"
                             ELSE toFixed1(pct) \o "%"]

\* volumes of exercises: the argument current
ChangeCurrentPool ==
    {Zero, IntNum(1), IntNum(90), IntNum(100), IntNum(110), IntNum(2590), IntNum(3060),
     IntNum(-320), <<10005, 1>>, <<9996, 2>>}

\* a previous volume or a window average, null for a window without session
ChangePreviousPool ==
    {<<>>, <<Zero>>, <<IntNum(3)>>, <<IntNum(100)>>, <<IntNum(2590)>>, <<IntNum(3000)>>,
     <<IntNum(-320)>>, <<IntNum(1000)>>}

(***************************************************************************)
(* detectHRPeaks(hrData, timeData, options).  Heart rates (bpm) and times   *)
(* (seconds) are integers; an average is an exact fraction.  JavaScript     *)
(* counts array indices from 0: index i is element i + 1 of the sequence.   *)
(***************************************************************************)

\* the half width of the rolling average, written 30 in the code
RollingHalfWidth == 30

Min2(a, b) == IF a <= b THEN a ELSE b

\* arr.slice(start, end): the elements of index start .. end - 1
Slice(arr, start, end) == SubSeq(arr, start + 1, end)

\* window.reduce((a, b) => a + b, 0); the additions are exact, so that the sum
\* is taken by halves instead of left to right
ReduceSum(window) ==
    LET RECURSIVE SumOf(_, _)
        SumOf(lo, hi) ==
            IF lo > hi THEN 0
            ELSE IF lo = hi THEN window[lo]
            ELSE SumOf(lo, (lo + hi) \div 2) + SumOf((lo + hi) \div 2 + 1, hi)
    IN  SumOf(1, Len(window))

\* rollingAvg[i]
RollingAvg(hr, i) ==
    LET start  == Max2(0, i - RollingHalfWidth)
        end    == Min2(Len(hr), i + RollingHalfWidth)
        window == Slice(hr, start, end)
    IN  Frac(ReduceSum(window), Len(window))

\* isLocalMax of index i
IsLocalMax(hr, i, windowSize) ==
    LET windowStart == Max2(0, i - windowSize)
        windowEnd   == Min2(Len(hr), i + windowSize)
        window      == Slice(hr, windowStart, windowEnd)
    IN  \A j \in 1..Len(window) : window[j] <= hr[i + 1]

\* isAboveThreshold of index i: hr > rollingAvg[i] + thresholdAboveAvg
IsAboveThreshold(hr, i, thresholdAboveAvg) ==
    LET avg == RollingAvg(hr, i)
    IN  hr[i + 1] * avg.den > avg.num + thresholdAboveAvg * avg.den

\* every candidate taken as far enough from the last peak
FarEnoughAlways(found, time, minPeakDistance) == TRUE

\* farEnough: !lastPeak || (time - lastPeak.time) >= minPeakDistance
FarEnough(found, time, minPeakDistance) ==
    found = <<>> \/ time - found[Len(found)].time >= minPeakDistance

\* peaks after the for loop has handled the indices windowSize .. i
RECURSIVE PeaksAfter(_, _, _, _)
PeaksAfter(hr, time, o, i) ==
    IF i < o.windowSize THEN <<>>
    ELSE LET found == PeaksAfter(hr, time, o, i - 1)
         IN  IF /\ IsLocalMax(hr, i, o.windowSize)
                /\ IsAboveThreshold(hr, i, o.thresholdAboveAvg)
                /\ FarEnough(found, time[i + 1], o.minPeakDistance)
             THEN Append(found, [index |-> i, time |-> time[i + 1], hr |-> hr[i + 1],
                                 avgHR |-> RollingAvg(hr, i)])
             ELSE found

\* the for loop run over every index from windowSize to the last one
detectHRPeaksToTheEnd(hr, time, o) ==
    IF Len(hr) = 0 THEN <<>>
    ELSE PeaksAfter(hr, time, o, Len(hr) - 1)

\* o is options with the defaults filled in
detectHRPeaks(hr, time, o) ==
    IF Len(hr) = 0 THEN <<>>
    ELSE PeaksAfter(hr, time, o, Len(hr) - o.windowSize - 1)

\* heart rates of the streams
HrValuePool == {60, 100, 120}

\* a stream longer than the rolling window reaches to the right of its peak
\* at index 1, with a raised last sample
LongHrPool ==
    {[j \in 1..LongSamples |-> IF j = 2 THEN 120 ELSE IF j = LongSamples THEN 100 ELSE 60]}

\* the time of sample i: one sample a second, or one every two seconds
TimeStepPool == {1, 2}

\* options: none given (the defaults), and short windows for short streams
HrOptionsPool == {
    [windowSize |-> 30, minPeakDistance |-> 45, thresholdAboveAvg |-> 15],
    [windowSize |-> 1, minPeakDistance |-> 3, thresholdAboveAvg |-> 15],
    [windowSize |-> 1, minPeakDistance |-> 2, thresholdAboveAvg |-> 5],
    [windowSize |-> 2, minPeakDistance |-> 3, thresholdAboveAvg |-> 15] }

---------------------------------------------------------------------------
(***************************************************************************)
(* correlateSetsToHR(sets, peaks, streams, options) with its helpers        *)
(* calculateWindowHRStats, correlateByTimestamp and correlateByPosition.    *)
(* A set is a record with the fields setIndex and timestamp (<<>> when the  *)
(* set has none); window bounds are exact fractions; hrData is <<>> for     *)
(* null and <<record>> otherwise.                                           *)
(***************************************************************************)

\* a <= b on fractions
FracLe(a, b) == a.num * b.den <= b.num * a.den

\* hrData.filter((_, i) => timeData[i] >= startTime && timeData[i] <= endTime)
WindowData(hr, time, startTime, endTime) ==
    LET InWindow(k) == /\ k <= Len(time)
                       /\ FracLe(startTime, Frac(time[k], 1))
                       /\ FracLe(Frac(time[k], 1), endTime)
        kept == SelectSeq([k \in 1..Len(hr) |-> k], InWindow)
    IN  [j \in 1..Len(kept) |-> hr[kept[j]]]

\* Math.max(...windowData) of a non-empty array
MathMax(data) ==
    CHOOSE m \in {data[j] : j \in 1..Len(data)} : \A j \in 1..Len(data) : data[j] <= m

\* Math.min(...windowData) of a non-empty array
MathMin(data) ==
    CHOOSE m \in {data[j] : j \in 1..Len(data)} : \A j \in 1..Len(data) : m <= data[j]

\* the returned stats of the filtered samples
WindowStats(windowData) ==
    IF Len(windowData) = 0
    THEN [avgHR |-> <<>>, maxHR |-> <<>>, minHR |-> <<>>]
    ELSE [avgHR |-> <<MathRound(Frac(ReduceSum(windowData), Len(windowData)))>>,
          maxHR |-> <<MathMax(windowData)>>,
          minHR |-> <<MathMin(windowData)>>]

calculateWindowHRStats(hr, time, startTime, endTime) ==
    WindowStats(WindowData(hr, time, startTime, endTime))

\* { ...a, ...b }: the properties of a, overwritten and extended by those of b
Spread(a, b) ==
    [k \in DOMAIN a \cup DOMAIN b |-> IF k \in DOMAIN b THEN b[k] ELSE a[k]]

\* { ...set, hrData: h }
WithHrData(set, h) == Spread(set, [hrData |-> h])

\* { peakHR, peakTime, ...stats, matchedBy } with the stats of the 20 seconds
\* around the peak
PeakHrData(peak, streams_, matchedBy) ==
    Spread([peakHR |-> peak.hr, peakTime |-> peak.time],
           Spread(calculateWindowHRStats(streams_.heartrate[1], streams_.time,
                                         Frac(peak.time - 20, 1), Frac(peak.time + 20, 1)),
                  [matchedBy |-> matchedBy]))

\* set.timestamp taken as a condition: undefined and 0 are falsy
TimestampTruthy(set) == set.timestamp # <<>> /\ set.timestamp[1] # 0

\* peaks.reduce((best, peak) => ..., null) after the first k peaks, <<>> for null
RECURSIVE NearestPeak(_, _, _)
NearestPeak(pks, setTime, k) ==
    IF k = 0 THEN <<>>
    ELSE LET best     == NearestPeak(pks, setTime, k - 1)
             distance == Abs(pks[k].time - setTime)
         IN  IF distance < 60 /\ (best = <<>> \/ distance < Abs(best[1].time - setTime))
             THEN <<pks[k]>>
             ELSE best

\* the callback of sets.map in correlateByTimestamp
TimestampSet(set, pks, streams_) ==
    IF ~TimestampTruthy(set) THEN WithHrData(set, <<>>)
    ELSE LET nearestPeak == NearestPeak(pks, set.timestamp[1], Len(pks))
         IN  IF nearestPeak = <<>> THEN WithHrData(set, <<>>)
             ELSE WithHrData(set, <<PeakHrData(nearestPeak[1], streams_, "timestamp")>>)

correlateByTimestamp(sets, pks, streams_) ==
    [i \in 1..Len(sets) |-> TimestampSet(sets[i], pks, streams_)]

\* peaks.length >= totalSets * 0.7 && peaks.length <= totalSets * 1.5
RoughlyOnePeakPerSet(totalSets, pks) ==
    10 * Len(pks) >= 7 * totalSets /\ 10 * Len(pks) <= 15 * totalSets

\* the set of index i matched to the peak of index i, whatever the counts
PositionSetSameIndex(set, i, totalSets, pks, streams_) ==
    WithHrData(set, <<PeakHrData(pks[Min2(i, Len(pks) - 1) + 1], streams_, "position")>>)

\* the callback of sets.map in the 1:1 branch, i counted from 0
PositionSet(set, i, totalSets, pks, streams_) ==
    LET expectedPeakIndex == (i * Len(pks)) \div totalSets
        peak == pks[Min2(expectedPeakIndex, Len(pks) - 1) + 1]
    IN  WithHrData(set, <<PeakHrData(peak, streams_, "position")>>)

\* segmentPeaks.reduce((best, peak) => (!best || peak.hr > best.hr) ? peak : best, null)
\* over the peaks of the segment among the first k peaks
RECURSIVE HighestPeak(_, _, _, _)
HighestPeak(pks, segmentStart, segmentEnd, k) ==
    IF k = 0 THEN <<>>
    ELSE LET best == HighestPeak(pks, segmentStart, segmentEnd, k - 1)
         IN  IF /\ FracLe(segmentStart, Frac(pks[k].time, 1))
                /\ ~FracLe(segmentEnd, Frac(pks[k].time, 1))
                /\ (best = <<>> \/ pks[k].hr > best[1].hr)
             THEN <<pks[k]>>
             ELSE best

\* the callback of sets.map in the segment branch, i counted from 0;
\* stats is an object, so `stats ? {...} : null` never gives null
SegmentSet(set, i, totalSets, pks, streams_, workoutDuration) ==
    LET segmentStart == Frac(i * workoutDuration, totalSets)
        segmentEnd   == Frac((i + 1) * workoutDuration, totalSets)
        highestPeak  == HighestPeak(pks, segmentStart, segmentEnd, Len(pks))
    IN  IF highestPeak = <<>>
        THEN WithHrData(set,
                 <<Spread(calculateWindowHRStats(streams_.heartrate[1], streams_.time,
                                                 segmentStart, segmentEnd),
                          [matchedBy |-> "segment"])>>)
        ELSE WithHrData(set, <<PeakHrData(highestPeak[1], streams_, "segment")>>)

correlateByPosition(sets, pks, streams_, workoutDuration) ==
    IF RoughlyOnePeakPerSet(Len(sets), pks)
    THEN [i \in 1..Len(sets) |-> PositionSet(sets[i], i - 1, Len(sets), pks, streams_)]
    ELSE [i \in 1..Len(sets) |->
              SegmentSet(sets[i], i - 1, Len(sets), pks, streams_, workoutDuration)]

\* without peaks or sets, the sets handed back as they came
correlateSetsToHRUntouched(sets, pks, streams_, workoutDuration) ==
    IF pks = <<>> \/ Len(pks[1]) = 0 \/ Len(sets) = 0
    THEN sets
    ELSE IF \E i \in 1..Len(sets) : TimestampTruthy(sets[i])
    THEN correlateByTimestamp(sets, pks[1], streams_)
    ELSE correlateByPosition(sets, pks[1], streams_, workoutDuration)

\* pks is <<>> for null and <<peaks>> otherwise
correlateSetsToHR(sets, pks, streams_, workoutDuration) ==
    IF pks = <<>> \/ Len(pks[1]) = 0 \/ Len(sets) = 0
    THEN [i \in 1..Len(sets) |-> WithHrData(sets[i], <<>>)]
    ELSE IF \E i \in 1..Len(sets) : TimestampTruthy(sets[i])
    THEN correlateByTimestamp(sets, pks[1], streams_)
    ELSE correlateByPosition(sets, pks[1], streams_, workoutDuration)

\* detectHRPeaks called with streams.heartrate, which is <<>> when the streams
\* carry no heart rate (!hrData) and <<array>> otherwise
DetectHRPeaksOf(heartrate, time, o) ==
    IF heartrate = <<>> THEN <<>> ELSE detectHRPeaks(heartrate[1], time, o)

\* const duration = time[time.length - 1]; undefined for an empty stream, which
\* has no peaks, so that the duration is not read then
Duration(time) == IF time = <<>> THEN 0 ELSE time[Len(time)]

\* the timestamps of a set: none, the workout start, and seconds into the workout
TimestampPool == {<<>>, <<0>>, <<45>>, <<100>>}

\* the lists of sets, numbered as analyzeWorkoutHR numbers them
AllSetsPool ==
    {[k \in 1..Len(q) |-> [setIndex |-> k - 1, timestamp |-> q[k]]] :
        q \in SeqsUpTo(TimestampPool, MaxSets)}

\* a stream of n samples, one a second, all of heart rate hr but sample at of
\* heart rate top
Spike(n, hr, at, top) ==
    [heartrate |-> <<[j \in 1..n |-> IF j = at + 1 THEN top ELSE hr]>>,
     time      |-> [j \in 1..n |-> j - 1]]

\* the streams: without heart rate, empty, flat, with one peak under the default
\* options, and short ones sampled every 40 or 10 seconds with one, two and
\* three peaks and with a pause of the recording
StreamPool == {
    [heartrate |-> <<>>, time |-> <<>>],
    [heartrate |-> << <<>> >>, time |-> <<>>],
    Spike(70, 100, 35, 100),
    Spike(70, 60, 35, 120),
    [heartrate |-> << <<60, 120, 60>> >>, time |-> <<0, 40, 80>>],
    [heartrate |-> << <<60, 120, 60, 130, 60>> >>, time |-> <<0, 40, 80, 120, 160>>],
    [heartrate |-> << <<60, 120, 60, 60>> >>, time |-> <<0, 10, 20, 300>>],
    [heartrate |-> << <<60, 120, 60, 120, 60, 125, 60>> >>,
     time      |-> <<0, 10, 20, 30, 40, 300, 310>>] }

\* the options of detectHRPeaks: the defaults, and a short window for short streams
CorrelateOptionsPool == {
    [windowSize |-> 30, minPeakDistance |-> 45, thresholdAboveAvg |-> 15],
    [windowSize |-> 1, minPeakDistance |-> 2, thresholdAboveAvg |-> 5] }

\* a row of the sheet that parseExerciseRow accepts as it stands
ValidRow == Row5("Cable shoulder press", "100,100", "100", "10,10", "2000")

\* rows with undefined cells (short rows), null cells, empty cells, cells that
\* are no numbers, and without a name
MessyRowPool == {
    <<>>,
    <<Str("Con. Chest press"), Str("50"), Str("50")>>,
    <<Null, Null, Null, Null, Null>>,
    <<Str("Leg curl"), Null, Null, Null, Null>>,
    Row5("Pec fly", "", "", "", ""),
    Row5("Leg press", "abc, 50", "heavy", "x,10", "n/a"),
    Row5("", "100", "100", "10", "1000") }

\* worksheets: the header row, messy rows, then the valid row
MessySheetPool ==
    {<<HeaderRow>> \o q \o <<ValidRow>> : q \in SeqsUpTo(MessyRowPool, MaxMessyRows)}

\* labels: a date, a name that is no date, and an empty label
MessyLabelPool == {Str("1/29/2026"), Str("Template"), Str("")}

---------------------------------------------------------------------------
(***************************************************************************)
(* sheetsService.js: the spreadsheet and saveWorkout.  The spreadsheet is   *)
(* the sequence of its sheets in tab order, each a record of its name and   *)
(* its rows; a cell read back is the text that was written.                 *)
(***************************************************************************)

\* the digits of f as e decimal places
RECURSIVE FractionDigits(_, _)
FractionDigits(f, e) ==
    IF e = 0 THEN "" ELSE FractionDigits(f \div 10, e - 1) \o NatToString(f % 10)

\* String(n) of a number m / 10^e that is not NaN
NumToString(n) ==
    (IF n[1] < 0 THEN "-" ELSE "")
    \o NatToString(Abs(n[1]) \div Pow10(n[2]))
    \o (IF n[2] = 0 THEN "" ELSE "." \o FractionDigits(Abs(n[1]) % Pow10(n[2]), n[2]))

\* parts.join(sep)
RECURSIVE Join(_, _)
Join(parts, sep) ==
    IF parts = <<>> THEN ""
    ELSE IF Len(parts) = 1 THEN parts[1]
    ELSE parts[1] \o sep \o Join(Tail(parts), sep)

\* s.rpe || '' as join writes it
RpeText(s) == IF s.rpe = <<>> \/ s.rpe[1] = Zero THEN "" ELSE NumToString(s.rpe[1])

\* the row pushed for an exercise: name, weights, number of sets, reps, rpes
SaveRow(ex) ==
    Row5(ex.name,
         Join([j \in 1..Len(ex.sets) |-> NumToString(ex.sets[j].weight)], ", "),
         NatToString(Len(ex.sets)),
         Join([j \in 1..Len(ex.sets) |-> NumToString(ex.sets[j].reps)], ", "),
         Join([j \in 1..Len(ex.sets) |-> RpeText(ex.sets[j])], ", "))

\* the rows of saveWorkout
SaveRows(exs) == [k \in 1..Len(exs) |-> SaveRow(exs[k])]

\* getSheetNames(): the titles in tab order
getSheetNames(sheets_) == [k \in 1..Len(sheets_) |-> sheets_[k].name]

\* names.includes(sheetName)
sheetExists(sheetName_, sheets_) ==
    \E k \in 1..Len(sheets_) : sheets_[k].name = sheetName_

\* addSheet with the date as title
createWorkoutSheet(date, sheets_) == Append(sheets_, [name |-> date, rows |-> <<>>])

\* values:append behind the last row of the sheet
appendRows(sheetName_, values, sheets_) ==
    [k \in 1..Len(sheets_) |->
        IF sheets_[k].name = sheetName_
        THEN [name |-> sheets_[k].name, rows |-> sheets_[k].rows \o values]
        ELSE sheets_[k]]

\* response.values || [] of an existing sheet
getSheetData(sheetName_, sheets_) ==
    LET k == CHOOSE j \in 1..Len(sheets_) : sheets_[j].name = sheetName_
    IN  sheets_[k].rows

\* a set as the workout logger hands it over
SetOf(weight, reps, rpe) == [weight |-> weight, reps |-> reps, rpe |-> rpe]

\* exercises to save: one set, two sets with a decimal weight and an rpe, a
\* bodyweight set, and no set at all
SaveExercisePool == {
    [name |-> "Bench Press", sets |-> <<SetOf(IntNum(135), IntNum(10), <<>>)>>],
    [name |-> "Leg curl",    sets |-> <<SetOf(Norm(625, 1), IntNum(8), <<IntNum(8)>>),
                                        SetOf(IntNum(60), IntNum(8), <<>>)>>],
    [name |-> "Pull up",     sets |-> <<SetOf(Zero, IntNum(12), <<>>)>>],
    [name |-> "Plank",       sets |-> <<>>] }

\* spreadsheets: no sheet, the sheet of another day, and the sheet of the day
\* with its header row
SpreadsheetPool == {
    <<>>,
    <<[name |-> "1/28/2026", rows |-> <<HeaderRow, ValidRow>>]>>,
    <<[name |-> "1/29/2026", rows |-> <<HeaderRow>>]>> }

\* /^\d{lo,hi}$/.test(s)
DigitRun(s, lo, hi) ==
    /\ lo <= Len(s) /\ Len(s) <= hi
    /\ \A k \in 1..Len(s) : IsDigit(CharAt(s, k))

\* /^\d{1,2}\/\d{1,2}\/\d{2,4}$/.test(name)
dateRegexTest(name) ==
    LET parts == split(name, "/")
    IN  /\ Len(parts) = 3
        /\ DigitRun(parts[1], 1, 2)
        /\ DigitRun(parts[2], 1, 2)
        /\ DigitRun(parts[3], 2, 4)

\* sheetNames.filter(name => dateRegex.test(name))
DateSheets(sheetNames) == SelectSeq(sheetNames, dateRegexTest)

\* the workout parsed of the sheet
FetchedWorkout(sheetName_, sheets_, cm) ==
    parseWorksheet(Str(sheetName_), getSheetData(sheetName_, sheets_), cm)

\* workouts after `if (workout.exercises.length > 0) workouts.push(workout)`
PushIfExercises(workouts_, fetched) ==
    IF Len(fetched.exercises) > 0 THEN Append(workouts_, fetched) ELSE workouts_

\* sheets: two days with an exercise, a day with the header only, a template,
\* a name of digits that is no calendar date, and a year of five digits
FetchSheetPool == {
    [name |-> "1/28/2026",  rows |-> <<HeaderRow, ValidRow>>],
    [name |-> "1/5/26",     rows |-> <<HeaderRow, Row5("Leg curl", "125,125", "125", "8,8", "")>>],
    [name |-> "1/29/2026",  rows |-> <<HeaderRow>>],
    [name |-> "Template",   rows |-> <<HeaderRow, ValidRow>>],
    [name |-> "13/45/203",  rows |-> <<HeaderRow, ValidRow>>],
    [name |-> "1/30/20260", rows |-> <<HeaderRow, ValidRow>>] }

\* spreadsheets: up to MaxSheets sheets of different names in any tab order
FetchSpreadsheetPool ==
    {q \in SeqsUpTo(FetchSheetPool, MaxSheets) :
        \A j, k \in 1..Len(q) : j # k => q[j].name # q[k].name}

(* The calls *)

NotRun == <<>>

(* parseCommaSeparated(value) *)

InitCsv ==
    /\ pc = "csv:call"
    /\ value \in CsvInputs
    /\ parsed = NotRun
    /\ row = <<>>
    /\ exercise = NotRun
    /\ sheetName = Undefined
    /\ rows = <<>>
    /\ next = 0
    /\ exercises = <<>>
    /\ totalVolume = Zero
    /\ workout = NotRun
    /\ dateObject = NotRun
    /\ exerciseName = ""
    /\ customMappings = NoMappings
    /\ muscles = NotRun
    /\ workouts = <<>>
    /\ stats = NotRun
    /\ muscleVolume = NotRun
    /\ currentDate = <<>>
    /\ now = Zero
    /\ history = NotRun
    /\ current = Zero
    /\ previous = <<>>
    /\ change = NotRun
    /\ hrData = <<>>
    /\ timeData = <<>>
    /\ options = NotRun
    /\ peaks = NotRun
    /\ streams = <<>>
    /\ allSets = <<>>
    /\ peaksArg = <<>>
    /\ correlatedSets = NotRun
    /\ sheets = <<>>
    /\ saveDate = ""
    /\ saveExercises = <<>>
    /\ dateSheets = <<>>
    /\ completed = 0
    /\ progress = <<>>
    /\ failed = <<>>
    /\ exists = <<>>

CallParseCommaSeparated ==
    /\ pc = "csv:call"
    /\ parsed' = parseCommaSeparated(value)
    /\ pc' = "csv:done"
    /\ UNCHANGED <<value, row, exercise, sheetName, rows, next, exercises, totalVolume,
                   workout, dateObject, exerciseName, customMappings, muscles,
                   workouts, stats, muscleVolume, currentDate, now, history, current,
                   previous, change, hrData, timeData, options, peaks,
                   streams, allSets, peaksArg, correlatedSets, sheets, saveDate, saveExercises, dateSheets, completed, progress, failed,
                   exists>>

NextCsv == CallParseCommaSeparated

SpecCsv == InitCsv /\ [][NextCsv]_vars

(* parseExerciseRow(row, customMappings) *)

InitRow ==
    /\ pc = "row:call"
    /\ row \in RowInputs
    /\ customMappings \in {NoMappings, << <<"leg curl", <<"x">>>> >>}
    /\ value = Undefined
    /\ parsed = NotRun
    /\ exercise = NotRun
    /\ sheetName = Undefined
    /\ rows = <<>>
    /\ next = 0
    /\ exercises = <<>>
    /\ totalVolume = Zero
    /\ workout = NotRun
    /\ dateObject = NotRun
    /\ exerciseName = ""
    /\ muscles = NotRun
    /\ workouts = <<>>
    /\ stats = NotRun
    /\ muscleVolume = NotRun
    /\ currentDate = <<>>
    /\ now = Zero
    /\ history = NotRun
    /\ current = Zero
    /\ previous = <<>>
    /\ change = NotRun
    /\ hrData = <<>>
    /\ timeData = <<>>
    /\ options = NotRun
    /\ peaks = NotRun
    /\ streams = <<>>
    /\ allSets = <<>>
    /\ peaksArg = <<>>
    /\ correlatedSets = NotRun
    /\ sheets = <<>>
    /\ saveDate = ""
    /\ saveExercises = <<>>
    /\ dateSheets = <<>>
    /\ completed = 0
    /\ progress = <<>>
    /\ failed = <<>>
    /\ exists = <<>>

CallParseExerciseRow ==
    /\ pc = "row:call"
    /\ exercise' = parseExerciseRow(row, customMappings)
    /\ pc' = "row:done"
    /\ UNCHANGED <<value, parsed, row, sheetName, rows, next, exercises, totalVolume,
                   workout, dateObject, exerciseName, customMappings, muscles,
                   workouts, stats, muscleVolume, currentDate, now, history, current,
                   previous, change, hrData, timeData, options, peaks,
                   streams, allSets, peaksArg, correlatedSets, sheets, saveDate, saveExercises, dateSheets, completed, progress, failed,
                   exists>>

NextRow == CallParseExerciseRow

SpecRow == InitRow /\ [][NextRow]_vars

(* parseWorksheet(sheetName, rows, customMappings) *)

InitSheet ==
    /\ pc = "sheet:call"
    /\ sheetName \in SheetNamePool
    /\ rows \in SeqsUpTo(SheetRowPool, MaxRows)
    /\ customMappings = << <<"leg curl", <<"x">>>> >>
    /\ value = Undefined
    /\ parsed = NotRun
    /\ row = <<>>
    /\ exercise = NotRun
    /\ next = 0
    /\ exercises = <<>>
    /\ totalVolume = Zero
    /\ workout = NotRun
    /\ dateObject = NotRun
    /\ exerciseName = ""
    /\ muscles = NotRun
    /\ workouts = <<>>
    /\ stats = NotRun
    /\ muscleVolume = NotRun
    /\ currentDate = <<>>
    /\ now = Zero
    /\ history = NotRun
    /\ current = Zero
    /\ previous = <<>>
    /\ change = NotRun
    /\ hrData = <<>>
    /\ timeData = <<>>
    /\ options = NotRun
    /\ peaks = NotRun
    /\ streams = <<>>
    /\ allSets = <<>>
    /\ peaksArg = <<>>
    /\ correlatedSets = NotRun
    /\ sheets = <<>>
    /\ saveDate = ""
    /\ saveExercises = <<>>
    /\ dateSheets = <<>>
    /\ completed = 0
    /\ progress = <<>>
    /\ failed = <<>>
    /\ exists = <<>>

\* the loop started on rows instead of rows.slice(1)
ParseWorksheetStartNoSlice ==
    /\ pc = "sheet:call"
    /\ exercises' = <<>>
    /\ totalVolume' = Zero
    /\ next' = 1
    /\ pc' = "sheet:loop"
    /\ UNCHANGED <<value, parsed, row, exercise, sheetName, rows, workout, dateObject,
                   exerciseName, customMappings, muscles,
                   workouts, stats, muscleVolume, currentDate, now, history, current,
                   previous, change, hrData, timeData, options, peaks,
                   streams, allSets, peaksArg, correlatedSets, sheets, saveDate, saveExercises, dateSheets, completed, progress, failed,
                   exists>>

\* const exercises = []; let totalVolume = 0; const dataRows = rows.slice(1)
ParseWorksheetStart ==
    /\ pc = "sheet:call"
    /\ exercises' = <<>>
    /\ totalVolume' = Zero
    /\ next' = 2
    /\ pc' = "sheet:loop"
    /\ UNCHANGED <<value, parsed, row, exercise, sheetName, rows, workout, dateObject,
                   exerciseName, customMappings, muscles,
                   workouts, stats, muscleVolume, currentDate, now, history, current,
                   previous, change, hrData, timeData, options, peaks,
                   streams, allSets, peaksArg, correlatedSets, sheets, saveDate, saveExercises, dateSheets, completed, progress, failed,
                   exists>>

\* totalVolume = exercise.volume in place of totalVolume += exercise.volume
RowAcceptedAssign ==
    /\ pc = "sheet:loop"
    /\ next <= Len(rows)
    /\ exercise' = parseExerciseRow(rows[next], customMappings)
    /\ exercise' # <<>>
    /\ exercises' = Append(exercises, exercise'[1])
    /\ totalVolume' = exercise'[1].volume
    /\ next' = next + 1
    /\ UNCHANGED <<pc, value, parsed, row, sheetName, rows, workout, dateObject,
                   exerciseName, customMappings, muscles,
                   workouts, stats, muscleVolume, currentDate, now, history, current,
                   previous, change, hrData, timeData, options, peaks,
                   streams, allSets, peaksArg, correlatedSets, sheets, saveDate, saveExercises, dateSheets, completed, progress, failed,
                   exists>>

\* one turn of the for loop on a row parseExerciseRow accepts
RowAccepted ==
    /\ pc = "sheet:loop"
    /\ next <= Len(rows)
    /\ exercise' = parseExerciseRow(rows[next], customMappings)
    /\ exercise' # <<>>
    /\ exercises' = Append(exercises, exercise'[1])
    /\ totalVolume' = Add(totalVolume, exercise'[1].volume)
    /\ next' = next + 1
    /\ UNCHANGED <<pc, value, parsed, row, sheetName, rows, workout, dateObject,
                   exerciseName, customMappings, muscles,
                   workouts, stats, muscleVolume, currentDate, now, history, current,
                   previous, change, hrData, timeData, options, peaks,
                   streams, allSets, peaksArg, correlatedSets, sheets, saveDate, saveExercises, dateSheets, completed, progress, failed,
                   exists>>

\* a row parseExerciseRow returns null for ends the loop
RowSkippedEndsLoop ==
    /\ pc = "sheet:loop"
    /\ next <= Len(rows)
    /\ exercise' = parseExerciseRow(rows[next], customMappings)
    /\ exercise' = <<>>
    /\ next' = Len(rows) + 1
    /\ UNCHANGED <<pc, value, parsed, row, sheetName, rows, exercises, totalVolume,
                   workout, dateObject, exerciseName, customMappings, muscles,
                   workouts, stats, muscleVolume, currentDate, now, history, current,
                   previous, change, hrData, timeData, options, peaks,
                   streams, allSets, peaksArg, correlatedSets, sheets, saveDate, saveExercises, dateSheets, completed, progress, failed,
                   exists>>

\* one turn of the for loop on a row parseExerciseRow returns null for
RowSkipped ==
    /\ pc = "sheet:loop"
    /\ next <= Len(rows)
    /\ exercise' = parseExerciseRow(rows[next], customMappings)
    /\ exercise' = <<>>
    /\ next' = next + 1
    /\ UNCHANGED <<pc, value, parsed, row, sheetName, rows, exercises, totalVolume,
                   workout, dateObject, exerciseName, customMappings, muscles,
                   workouts, stats, muscleVolume, currentDate, now, history, current,
                   previous, change, hrData, timeData, options, peaks,
                   streams, allSets, peaksArg, correlatedSets, sheets, saveDate, saveExercises, dateSheets, completed, progress, failed,
                   exists>>

\* the return statement, once the loop has run out of rows
ParseWorksheetReturn ==
    /\ pc = "sheet:loop"
    /\ next > Len(rows)
    /\ workout' = << [date          |-> sheetName,
                      dateObject    |-> parseDateString(sheetName),
                      exercises     |-> exercises,
                      totalVolume   |-> totalVolume,
                      exerciseCount |-> Len(exercises)] >>
    /\ pc' = "sheet:done"
    /\ UNCHANGED <<value, parsed, row, exercise, sheetName, rows, next, exercises,
                   totalVolume, dateObject, exerciseName, customMappings, muscles,
                   workouts, stats, muscleVolume, currentDate, now, history, current,
                   previous, change, hrData, timeData, options, peaks,
                   streams, allSets, peaksArg, correlatedSets, sheets, saveDate, saveExercises, dateSheets, completed, progress, failed,
                   exists>>

NextSheet ==
    \/ ParseWorksheetStart
    \/ RowAccepted
    \/ RowSkipped
    \/ ParseWorksheetReturn

SpecSheet == InitSheet /\ [][NextSheet]_vars

(* parseDateString(dateStr) *)

InitDate ==
    /\ pc = "date:call"
    /\ sheetName \in DateInputs
    /\ value = Undefined
    /\ parsed = NotRun
    /\ row = <<>>
    /\ exercise = NotRun
    /\ rows = <<>>
    /\ next = 0
    /\ exercises = <<>>
    /\ totalVolume = Zero
    /\ workout = NotRun
    /\ dateObject = NotRun
    /\ exerciseName = ""
    /\ customMappings = NoMappings
    /\ muscles = NotRun
    /\ workouts = <<>>
    /\ stats = NotRun
    /\ muscleVolume = NotRun
    /\ currentDate = <<>>
    /\ now = Zero
    /\ history = NotRun
    /\ current = Zero
    /\ previous = <<>>
    /\ change = NotRun
    /\ hrData = <<>>
    /\ timeData = <<>>
    /\ options = NotRun
    /\ peaks = NotRun
    /\ streams = <<>>
    /\ allSets = <<>>
    /\ peaksArg = <<>>
    /\ correlatedSets = NotRun
    /\ sheets = <<>>
    /\ saveDate = ""
    /\ saveExercises = <<>>
    /\ dateSheets = <<>>
    /\ completed = 0
    /\ progress = <<>>
    /\ failed = <<>>
    /\ exists = <<>>

CallParseDateString ==
    /\ pc = "date:call"
    /\ dateObject' = parseDateString(sheetName)
    /\ pc' = "date:done"
    /\ UNCHANGED <<value, parsed, row, exercise, sheetName, rows, next, exercises,
                   totalVolume, workout, exerciseName, customMappings, muscles,
                   workouts, stats, muscleVolume, currentDate, now, history, current,
                   previous, change, hrData, timeData, options, peaks,
                   streams, allSets, peaksArg, correlatedSets, sheets, saveDate, saveExercises, dateSheets, completed, progress, failed,
                   exists>>

NextDate == CallParseDateString

SpecDate == InitDate /\ [][NextDate]_vars

(* getMuscleGroups(exerciseName, customMappings) *)

InitMuscle ==
    /\ pc = "muscle:call"
    /\ exerciseName \in ExerciseNamePool
    /\ customMappings \in CustomMappingsPool
    /\ value = Undefined
    /\ parsed = NotRun
    /\ row = <<>>
    /\ exercise = NotRun
    /\ sheetName = Undefined
    /\ rows = <<>>
    /\ next = 0
    /\ exercises = <<>>
    /\ totalVolume = Zero
    /\ workout = NotRun
    /\ dateObject = NotRun
    /\ muscles = NotRun
    /\ workouts = <<>>
    /\ stats = NotRun
    /\ muscleVolume = NotRun
    /\ currentDate = <<>>
    /\ now = Zero
    /\ history = NotRun
    /\ current = Zero
    /\ previous = <<>>
    /\ change = NotRun
    /\ hrData = <<>>
    /\ timeData = <<>>
    /\ options = NotRun
    /\ peaks = NotRun
    /\ streams = <<>>
    /\ allSets = <<>>
    /\ peaksArg = <<>>
    /\ correlatedSets = NotRun
    /\ sheets = <<>>
    /\ saveDate = ""
    /\ saveExercises = <<>>
    /\ dateSheets = <<>>
    /\ completed = 0
    /\ progress = <<>>
    /\ failed = <<>>
    /\ exists = <<>>

CallGetMuscleGroups ==
    /\ pc = "muscle:call"
    /\ muscles' = <<getMuscleGroups(exerciseName, customMappings)>>
    /\ pc' = "muscle:done"
    /\ UNCHANGED <<value, parsed, row, exercise, sheetName, rows, next, exercises,
                   totalVolume, workout, dateObject, exerciseName, customMappings,
                   workouts, stats, muscleVolume, currentDate, now, history, current,
                   previous, change, hrData, timeData, options, peaks,
                   streams, allSets, peaksArg, correlatedSets, sheets, saveDate, saveExercises, dateSheets, completed, progress, failed,
                   exists>>

NextMuscle == CallGetMuscleGroups

SpecMuscle == InitMuscle /\ [][NextMuscle]_vars

(* calculateStats(workouts) *)

InitStats ==
    /\ pc = "stats:call"
    /\ workouts \in SeqsUpTo(WorkoutPool, MaxWorkouts)
    /\ value = Undefined
    /\ parsed = NotRun
    /\ row = <<>>
    /\ exercise = NotRun
    /\ sheetName = Undefined
    /\ rows = <<>>
    /\ next = 0
    /\ exercises = <<>>
    /\ totalVolume = Zero
    /\ workout = NotRun
    /\ dateObject = NotRun
    /\ exerciseName = ""
    /\ customMappings = NoMappings
    /\ muscles = NotRun
    /\ stats = NotRun
    /\ muscleVolume = NotRun
    /\ currentDate = <<>>
    /\ now = Zero
    /\ history = NotRun
    /\ current = Zero
    /\ previous = <<>>
    /\ change = NotRun
    /\ hrData = <<>>
    /\ timeData = <<>>
    /\ options = NotRun
    /\ peaks = NotRun
    /\ streams = <<>>
    /\ allSets = <<>>
    /\ peaksArg = <<>>
    /\ correlatedSets = NotRun
    /\ sheets = <<>>
    /\ saveDate = ""
    /\ saveExercises = <<>>
    /\ dateSheets = <<>>
    /\ completed = 0
    /\ progress = <<>>
    /\ failed = <<>>
    /\ exists = <<>>

CallCalculateStats ==
    /\ pc = "stats:call"
    /\ stats' = <<calculateStats(workouts)>>
    /\ pc' = "stats:done"
    /\ UNCHANGED <<value, parsed, row, exercise, sheetName, rows, next, exercises,
                   totalVolume, workout, dateObject, exerciseName, customMappings,
                   muscles, workouts, muscleVolume, currentDate, now, history, current,
                   previous, change, hrData, timeData, options, peaks,
                   streams, allSets, peaksArg, correlatedSets, sheets, saveDate, saveExercises, dateSheets, completed, progress, failed,
                   exists>>

NextStats == CallCalculateStats

SpecStats == InitStats /\ [][NextStats]_vars

(* calculateMuscleVolume(workouts) *)

InitMuscleVolume ==
    /\ pc = "volume:call"
    /\ workouts \in SeqsUpTo(WorkoutPool, MaxWorkouts)
    /\ value = Undefined
    /\ parsed = NotRun
    /\ row = <<>>
    /\ exercise = NotRun
    /\ sheetName = Undefined
    /\ rows = <<>>
    /\ next = 0
    /\ exercises = <<>>
    /\ totalVolume = Zero
    /\ workout = NotRun
    /\ dateObject = NotRun
    /\ exerciseName = ""
    /\ customMappings = NoMappings
    /\ muscles = NotRun
    /\ stats = NotRun
    /\ muscleVolume = NotRun
    /\ currentDate = <<>>
    /\ now = Zero
    /\ history = NotRun
    /\ current = Zero
    /\ previous = <<>>
    /\ change = NotRun
    /\ hrData = <<>>
    /\ timeData = <<>>
    /\ options = NotRun
    /\ peaks = NotRun
    /\ streams = <<>>
    /\ allSets = <<>>
    /\ peaksArg = <<>>
    /\ correlatedSets = NotRun
    /\ sheets = <<>>
    /\ saveDate = ""
    /\ saveExercises = <<>>
    /\ dateSheets = <<>>
    /\ completed = 0
    /\ progress = <<>>
    /\ failed = <<>>
    /\ exists = <<>>

\* the three nested loops: the local muscleVolume before the return statement
MuscleVolumeLoops ==
    /\ pc = "volume:call"
    /\ muscleVolume' = <<MuscleVolumeAfterWorkouts(workouts, Len(workouts))>>
    /\ pc' = "volume:return"
    /\ UNCHANGED <<value, parsed, row, exercise, sheetName, rows, next, exercises,
                   totalVolume, workout, dateObject, exerciseName, customMappings,
                   muscles, workouts, stats, currentDate, now, history, current,
                   previous, change, hrData, timeData, options, peaks,
                   streams, allSets, peaksArg, correlatedSets, sheets, saveDate, saveExercises, dateSheets, completed, progress, failed,
                   exists>>

\* the return statement: the volumes rounded, the Sets turned into arrays
MuscleVolumeReturn ==
    /\ pc = "volume:return"
    /\ muscleVolume' = <<MuscleVolumeEntries(muscleVolume[1])>>
    /\ pc' = "volume:done"
    /\ UNCHANGED <<value, parsed, row, exercise, sheetName, rows, next, exercises,
                   totalVolume, workout, dateObject, exerciseName, customMappings,
                   muscles, workouts, stats, currentDate, now, history, current,
                   previous, change, hrData, timeData, options, peaks,
                   streams, allSets, peaksArg, correlatedSets, sheets, saveDate, saveExercises, dateSheets, completed, progress, failed,
                   exists>>

NextMuscleVolume == MuscleVolumeLoops \/ MuscleVolumeReturn

SpecMuscleVolume == InitMuscleVolume /\ [][NextMuscleVolume]_vars

(* calculateExerciseHistory(exerciseName, currentDate, allWorkouts) *)

InitHistory ==
    /\ pc = "history:call"
    /\ exerciseName \in HistoryNamePool
    /\ workouts \in SeqsUpTo(HistoryWorkoutPool, MaxWorkouts)
    /\ \E call \in HistoryCallPool : currentDate = call[1] /\ now = call[2]
    /\ value = Undefined
    /\ parsed = NotRun
    /\ row = <<>>
    /\ exercise = NotRun
    /\ sheetName = Undefined
    /\ rows = <<>>
    /\ next = 0
    /\ exercises = <<>>
    /\ totalVolume = Zero
    /\ workout = NotRun
    /\ dateObject = NotRun
    /\ customMappings = NoMappings
    /\ muscles = NotRun
    /\ stats = NotRun
    /\ muscleVolume = NotRun
    /\ history = NotRun
    /\ current = Zero
    /\ previous = <<>>
    /\ change = NotRun
    /\ hrData = <<>>
    /\ timeData = <<>>
    /\ options = NotRun
    /\ peaks = NotRun
    /\ streams = <<>>
    /\ allSets = <<>>
    /\ peaksArg = <<>>
    /\ correlatedSets = NotRun
    /\ sheets = <<>>
    /\ saveDate = ""
    /\ saveExercises = <<>>
    /\ dateSheets = <<>>
    /\ completed = 0
    /\ progress = <<>>
    /\ failed = <<>>
    /\ exists = <<>>

CallCalculateExerciseHistory ==
    /\ pc = "history:call"
    /\ history' = <<calculateExerciseHistory(exerciseName, currentDate, workouts, now)>>
    /\ pc' = "history:done"
    /\ UNCHANGED <<value, parsed, row, exercise, sheetName, rows, next, exercises,
                   totalVolume, workout, dateObject, exerciseName, customMappings,
                   muscles, workouts, stats, muscleVolume, currentDate, now, current,
                   previous, change, hrData, timeData, options, peaks,
                   streams, allSets, peaksArg, correlatedSets, sheets, saveDate, saveExercises, dateSheets, completed, progress, failed,
                   exists>>

NextHistory == CallCalculateExerciseHistory

SpecHistory == InitHistory /\ [][NextHistory]_vars

(* calculateChange(current, previous) *)

InitChange ==
    /\ pc = "change:call"
    /\ current \in ChangeCurrentPool
    /\ previous \in ChangePreviousPool
    /\ value = Undefined
    /\ parsed = NotRun
    /\ row = <<>>
    /\ exercise = NotRun
    /\ sheetName = Undefined
    /\ rows = <<>>
    /\ next = 0
    /\ exercises = <<>>
    /\ totalVolume = Zero
    /\ workout = NotRun
    /\ dateObject = NotRun
    /\ exerciseName = ""
    /\ customMappings = NoMappings
    /\ muscles = NotRun
    /\ workouts = <<>>
    /\ stats = NotRun
    /\ muscleVolume = NotRun
    /\ currentDate = <<>>
    /\ now = Zero
    /\ history = NotRun
    /\ change = NotRun
    /\ hrData = <<>>
    /\ timeData = <<>>
    /\ options = NotRun
    /\ peaks = NotRun
    /\ streams = <<>>
    /\ allSets = <<>>
    /\ peaksArg = <<>>
    /\ correlatedSets = NotRun
    /\ sheets = <<>>
    /\ saveDate = ""
    /\ saveExercises = <<>>
    /\ dateSheets = <<>>
    /\ completed = 0
    /\ progress = <<>>
    /\ failed = <<>>
    /\ exists = <<>>

CallCalculateChange ==
    /\ pc = "change:call"
    /\ change' = <<calculateChange(current, previous)>>
    /\ pc' = "change:done"
    /\ UNCHANGED <<value, parsed, row, exercise, sheetName, rows, next, exercises,
                   totalVolume, workout, dateObject, exerciseName, customMappings,
                   muscles, workouts, stats, muscleVolume, currentDate, now, history,
                   current, previous, hrData, timeData, options, peaks,
                   streams, allSets, peaksArg, correlatedSets, sheets, saveDate, saveExercises, dateSheets, completed, progress, failed,
                   exists>>

NextChange == CallCalculateChange

SpecChange == InitChange /\ [][NextChange]_vars

(* detectHRPeaks(hrData, timeData, options) *)

InitPeaks ==
    /\ pc = "peaks:call"
    /\ hrData \in SeqsUpTo(HrValuePool, MaxSamples) \cup LongHrPool
    /\ \E step \in TimeStepPool : timeData = [j \in 1..Len(hrData) |-> (j - 1) * step]
    /\ options \in HrOptionsPool
    /\ value = Undefined
    /\ parsed = NotRun
    /\ row = <<>>
    /\ exercise = NotRun
    /\ sheetName = Undefined
    /\ rows = <<>>
    /\ next = 0
    /\ exercises = <<>>
    /\ totalVolume = Zero
    /\ workout = NotRun
    /\ dateObject = NotRun
    /\ exerciseName = ""
    /\ customMappings = NoMappings
    /\ muscles = NotRun
    /\ workouts = <<>>
    /\ stats = NotRun
    /\ muscleVolume = NotRun
    /\ currentDate = <<>>
    /\ now = Zero
    /\ history = NotRun
    /\ current = Zero
    /\ previous = <<>>
    /\ change = NotRun
    /\ peaks = NotRun
    /\ streams = <<>>
    /\ allSets = <<>>
    /\ peaksArg = <<>>
    /\ correlatedSets = NotRun
    /\ sheets = <<>>
    /\ saveDate = ""
    /\ saveExercises = <<>>
    /\ dateSheets = <<>>
    /\ completed = 0
    /\ progress = <<>>
    /\ failed = <<>>
    /\ exists = <<>>

CallDetectHRPeaks ==
    /\ pc = "peaks:call"
    /\ peaks' = <<detectHRPeaks(hrData, timeData, options)>>
    /\ pc' = "peaks:done"
    /\ UNCHANGED <<value, parsed, row, exercise, sheetName, rows, next, exercises,
                   totalVolume, workout, dateObject, exerciseName, customMappings,
                   muscles, workouts, stats, muscleVolume, currentDate, now, history,
                   current, previous, change, hrData, timeData, options,
                   streams, allSets, peaksArg, correlatedSets, sheets, saveDate, saveExercises, dateSheets, completed, progress, failed,
                   exists>>

NextPeaks == CallDetectHRPeaks

SpecPeaks == InitPeaks /\ [][NextPeaks]_vars

(* detectHRPeaks(streams.heartrate, streams.time, options) and then
   correlateSetsToHR(allSets, peaks, streams, {workoutDuration}), as in
   analyzeWorkoutHR; the peaks handed over are the detected ones or null *)

InitCorrelate ==
    /\ pc = "correlate:detect"
    /\ streams \in StreamPool
    /\ options \in CorrelateOptionsPool
    /\ allSets \in AllSetsPool
    /\ value = Undefined
    /\ parsed = NotRun
    /\ row = <<>>
    /\ exercise = NotRun
    /\ sheetName = Undefined
    /\ rows = <<>>
    /\ next = 0
    /\ exercises = <<>>
    /\ totalVolume = Zero
    /\ workout = NotRun
    /\ dateObject = NotRun
    /\ exerciseName = ""
    /\ customMappings = NoMappings
    /\ muscles = NotRun
    /\ workouts = <<>>
    /\ stats = NotRun
    /\ muscleVolume = NotRun
    /\ currentDate = <<>>
    /\ now = Zero
    /\ history = NotRun
    /\ current = Zero
    /\ previous = <<>>
    /\ change = NotRun
    /\ hrData = <<>>
    /\ timeData = <<>>
    /\ peaks = NotRun
    /\ peaksArg = <<>>
    /\ correlatedSets = NotRun
    /\ sheets = <<>>
    /\ saveDate = ""
    /\ saveExercises = <<>>
    /\ dateSheets = <<>>
    /\ completed = 0
    /\ progress = <<>>
    /\ failed = <<>>
    /\ exists = <<>>

DetectPeaksOfStreams ==
    /\ pc = "correlate:detect"
    /\ peaks' = <<DetectHRPeaksOf(streams.heartrate, streams.time, options)>>
    /\ pc' = "correlate:call"
    /\ UNCHANGED <<value, parsed, row, exercise, sheetName, rows, next, exercises, totalVolume,
                    workout, dateObject, exerciseName, customMappings, muscles, workouts, stats,
                    muscleVolume, currentDate, now, history, current, previous, change, hrData,
                    timeData, options, streams, allSets, peaksArg, correlatedSets, sheets,
                    saveDate, saveExercises, dateSheets, completed, progress, failed,
                   exists>>

CallCorrelateSetsToHR ==
    /\ pc = "correlate:call"
    /\ \E pks \in {<<>>, peaks} :
           /\ peaksArg' = pks
           /\ correlatedSets' =
                  <<correlateSetsToHR(allSets, pks, streams, Duration(streams.time))>>
    /\ pc' = "correlate:done"
    /\ UNCHANGED <<value, parsed, row, exercise, sheetName, rows, next, exercises, totalVolume,
                    workout, dateObject, exerciseName, customMappings, muscles, workouts, stats,
                    muscleVolume, currentDate, now, history, current, previous, change, hrData,
                    timeData, options, peaks, streams, allSets, sheets, saveDate, saveExercises,
                    dateSheets, completed, progress, failed,
                   exists>>

NextCorrelate == DetectPeaksOfStreams \/ CallCorrelateSetsToHR

SpecCorrelate == InitCorrelate /\ [][NextCorrelate]_vars

(* the core functions on messy input: parseWorksheet on worksheets with messy
   rows, detectHRPeaks and correlateSetsToHR, calculateChange *)

InitMessySheet ==
    /\ pc = "sheet:call"
    /\ sheetName \in MessyLabelPool
    /\ rows \in MessySheetPool
    /\ customMappings = NoMappings
    /\ value = Undefined
    /\ parsed = NotRun
    /\ row = <<>>
    /\ exercise = NotRun
    /\ next = 0
    /\ exercises = <<>>
    /\ totalVolume = Zero
    /\ workout = NotRun
    /\ dateObject = NotRun
    /\ exerciseName = ""
    /\ muscles = NotRun
    /\ workouts = <<>>
    /\ stats = NotRun
    /\ muscleVolume = NotRun
    /\ currentDate = <<>>
    /\ now = Zero
    /\ history = NotRun
    /\ current = Zero
    /\ previous = <<>>
    /\ change = NotRun
    /\ hrData = <<>>
    /\ timeData = <<>>
    /\ options = NotRun
    /\ peaks = NotRun
    /\ streams = <<>>
    /\ allSets = <<>>
    /\ peaksArg = <<>>
    /\ correlatedSets = NotRun
    /\ sheets = <<>>
    /\ saveDate = ""
    /\ saveExercises = <<>>
    /\ dateSheets = <<>>
    /\ completed = 0
    /\ progress = <<>>
    /\ failed = <<>>
    /\ exists = <<>>

InitCore == InitMessySheet \/ InitCorrelate \/ InitChange

NextCore == NextSheet \/ NextCorrelate \/ NextChange

SpecCore == InitCore /\ [][NextCore]_vars

(* saveWorkout(date, exercises), a step for each awaited request, and the
   sheet read back: parseWorksheet(date, getSheetData(date)) *)

InitSave ==
    /\ pc = "save:call"
    /\ sheets \in SpreadsheetPool
    /\ saveDate = "1/29/2026"
    /\ saveExercises \in SeqsUpTo(SaveExercisePool, MaxSaved)
    /\ value = Undefined
    /\ parsed = NotRun
    /\ row = <<>>
    /\ exercise = NotRun
    /\ sheetName = Undefined
    /\ rows = <<>>
    /\ next = 0
    /\ exercises = <<>>
    /\ totalVolume = Zero
    /\ workout = NotRun
    /\ dateObject = NotRun
    /\ exerciseName = ""
    /\ customMappings = NoMappings
    /\ muscles = NotRun
    /\ workouts = <<>>
    /\ stats = NotRun
    /\ muscleVolume = NotRun
    /\ currentDate = <<>>
    /\ now = Zero
    /\ history = NotRun
    /\ current = Zero
    /\ previous = <<>>
    /\ change = NotRun
    /\ hrData = <<>>
    /\ timeData = <<>>
    /\ options = NotRun
    /\ peaks = NotRun
    /\ streams = <<>>
    /\ allSets = <<>>
    /\ peaksArg = <<>>
    /\ correlatedSets = NotRun
    /\ dateSheets = <<>>
    /\ completed = 0
    /\ progress = <<>>
    /\ failed = <<>>
    /\ exists = <<>>

\* sheetExists answers false and the sheet is created
SaveCreatesSheet ==
    /\ pc = "save:call"
    /\ ~sheetExists(saveDate, sheets)
    /\ exists' = <<FALSE>>
    /\ sheets' = createWorkoutSheet(saveDate, sheets)
    /\ pc' = "save:append"
    /\ UNCHANGED <<value, parsed, row, exercise, sheetName, rows, next, exercises, totalVolume,
                    workout, dateObject, exerciseName, customMappings, muscles, workouts, stats,
                    muscleVolume, currentDate, now, history, current, previous, change, hrData,
                    timeData, options, peaks, streams, allSets, peaksArg, correlatedSets,
                    saveDate, saveExercises, dateSheets, completed, progress, failed>>

\* sheetExists answers true
SaveFindsSheet ==
    /\ pc = "save:call"
    /\ sheetExists(saveDate, sheets)
    /\ exists' = <<TRUE>>
    /\ pc' = "save:append"
    /\ UNCHANGED <<value, parsed, row, exercise, sheetName, rows, next, exercises, totalVolume,
                    workout, dateObject, exerciseName, customMappings, muscles, workouts, stats,
                    muscleVolume, currentDate, now, history, current, previous, change, hrData,
                    timeData, options, peaks, streams, allSets, peaksArg, correlatedSets, sheets,
                    saveDate, saveExercises, dateSheets, completed, progress, failed>>

\* the rows are built and appended
SaveAppendsRows ==
    /\ pc = "save:append"
    /\ sheets' = appendRows(saveDate, SaveRows(saveExercises), sheets)
    /\ pc' = "save:saved"
    /\ UNCHANGED <<value, parsed, row, exercise, sheetName, rows, next, exercises, totalVolume,
                    workout, dateObject, exerciseName, customMappings, muscles, workouts, stats,
                    muscleVolume, currentDate, now, history, current, previous, change, hrData,
                    timeData, options, peaks, streams, allSets, peaksArg, correlatedSets,
                    saveDate, saveExercises, dateSheets, completed, progress, failed, exists>>

\* the sheet is read back and parsed
ReadSheetBack ==
    /\ pc = "save:saved"
    /\ workout' = <<parseWorksheet(Str(saveDate), getSheetData(saveDate, sheets), NoMappings)>>
    /\ pc' = "save:done"
    /\ UNCHANGED <<value, parsed, row, exercise, sheetName, rows, next, exercises, totalVolume,
                    dateObject, exerciseName, customMappings, muscles, workouts, stats,
                    muscleVolume, currentDate, now, history, current, previous, change, hrData,
                    timeData, options, peaks, streams, allSets, peaksArg, correlatedSets, sheets,
                    saveDate, saveExercises, dateSheets, completed, progress, failed, exists>>

NextSave == SaveCreatesSheet \/ SaveFindsSheet \/ SaveAppendsRows \/ ReadSheetBack

SpecSave == InitSave /\ [][NextSave]_vars

(* fetchAllWorkouts(spreadsheetId, customMappings, onProgress) with an
   onProgress that records its argument; a step for each awaited request,
   which is answered or fails *)

InitFetch ==
    /\ pc = "fetch:call"
    /\ sheets \in FetchSpreadsheetPool
    /\ customMappings = NoMappings
    /\ value = Undefined
    /\ parsed = NotRun
    /\ row = <<>>
    /\ exercise = NotRun
    /\ sheetName = Undefined
    /\ rows = <<>>
    /\ next = 0
    /\ exercises = <<>>
    /\ totalVolume = Zero
    /\ workout = NotRun
    /\ dateObject = NotRun
    /\ exerciseName = ""
    /\ muscles = NotRun
    /\ workouts = <<>>
    /\ stats = NotRun
    /\ muscleVolume = NotRun
    /\ currentDate = <<>>
    /\ now = Zero
    /\ history = NotRun
    /\ current = Zero
    /\ previous = <<>>
    /\ change = NotRun
    /\ hrData = <<>>
    /\ timeData = <<>>
    /\ options = NotRun
    /\ peaks = NotRun
    /\ streams = <<>>
    /\ allSets = <<>>
    /\ peaksArg = <<>>
    /\ correlatedSets = NotRun
    /\ saveDate = ""
    /\ saveExercises = <<>>
    /\ dateSheets = <<>>
    /\ completed = 0
    /\ progress = <<>>
    /\ failed = <<>>
    /\ exists = <<>>

\* getSheetNames is answered: the date sheets are filtered
FetchSheetNames ==
    /\ pc = "fetch:call"
    /\ dateSheets' = DateSheets(getSheetNames(sheets))
    /\ workouts' = <<>>
    /\ completed' = 0
    /\ next' = 1
    /\ pc' = "fetch:loop"
    /\ UNCHANGED <<value, parsed, row, exercise, sheetName, rows, exercises, totalVolume,
                    workout, dateObject, exerciseName, customMappings, muscles, stats,
                    muscleVolume, currentDate, now, history, current, previous, change, hrData,
                    timeData, options, peaks, streams, allSets, peaksArg, correlatedSets, sheets,
                    saveDate, saveExercises, progress, failed, exists>>

\* getSheetNames fails outside every try: the call is rejected
FetchSheetNamesFails ==
    /\ pc = "fetch:call"
    /\ pc' = "fetch:rejected"
    /\ UNCHANGED <<value, parsed, row, exercise, sheetName, rows, next, exercises, totalVolume,
                    workout, dateObject, exerciseName, customMappings, muscles, workouts, stats,
                    muscleVolume, currentDate, now, history, current, previous, change, hrData,
                    timeData, options, peaks, streams, allSets, peaksArg, correlatedSets, sheets,
                    saveDate, saveExercises, dateSheets, completed, progress, failed, exists>>

\* one turn of the loop with getSheetData answered
SheetFetched ==
    /\ pc = "fetch:loop"
    /\ next <= Len(dateSheets)
    /\ workouts' = PushIfExercises(workouts, FetchedWorkout(dateSheets[next], sheets, customMappings))
    /\ completed' = completed + 1
    /\ progress' = Append(progress, [current      |-> completed',
                                      total        |-> Len(dateSheets),
                                      currentSheet |-> dateSheets[next]])
    /\ next' = next + 1
    /\ UNCHANGED <<pc, value, parsed, row, exercise, sheetName, rows, exercises, totalVolume,
                    workout, dateObject, exerciseName, customMappings, muscles, stats,
                    muscleVolume, currentDate, now, history, current, previous, change, hrData,
                    timeData, options, peaks, streams, allSets, peaksArg, correlatedSets, sheets,
                    saveDate, saveExercises, dateSheets, failed, exists>>

\* a failing getSheetData ends the loop
SheetFetchFailsEndsLoop ==
    /\ pc = "fetch:loop"
    /\ next <= Len(dateSheets)
    /\ failed' = Append(failed, dateSheets[next])
    /\ next' = Len(dateSheets) + 1
    /\ UNCHANGED <<pc, value, parsed, row, exercise, sheetName, rows, exercises, totalVolume,
                    workout, dateObject, exerciseName, customMappings, muscles, workouts, stats,
                    muscleVolume, currentDate, now, history, current, previous, change, hrData,
                    timeData, options, peaks, streams, allSets, peaksArg, correlatedSets, sheets,
                    saveDate, saveExercises, dateSheets, completed, progress, exists>>

\* one turn of the loop with getSheetData failing: the catch logs the sheet
SheetFetchFails ==
    /\ pc = "fetch:loop"
    /\ next <= Len(dateSheets)
    /\ failed' = Append(failed, dateSheets[next])
    /\ next' = next + 1
    /\ UNCHANGED <<pc, value, parsed, row, exercise, sheetName, rows, exercises, totalVolume,
                    workout, dateObject, exerciseName, customMappings, muscles, workouts, stats,
                    muscleVolume, currentDate, now, history, current, previous, change, hrData,
                    timeData, options, peaks, streams, allSets, peaksArg, correlatedSets, sheets,
                    saveDate, saveExercises, dateSheets, completed, progress, exists>>

\* return workouts
FetchReturn ==
    /\ pc = "fetch:loop"
    /\ next > Len(dateSheets)
    /\ pc' = "fetch:done"
    /\ UNCHANGED <<value, parsed, row, exercise, sheetName, rows, next, exercises, totalVolume,
                    workout, dateObject, exerciseName, customMappings, muscles, workouts, stats,
                    muscleVolume, currentDate, now, history, current, previous, change, hrData,
                    timeData, options, peaks, streams, allSets, peaksArg, correlatedSets, sheets,
                    saveDate, saveExercises, dateSheets, completed, progress, failed, exists>>

NextFetch ==
    \/ FetchSheetNames \/ FetchSheetNamesFails
    \/ SheetFetched \/ SheetFetchFails \/ FetchReturn

SpecFetch == InitFetch /\ [][NextFetch]_vars

\* a turn of the loop as far as the loop counter goes, and its end
LoopTurn == pc = "fetch:loop" /\ next <= Len(dateSheets) /\ next' = next + 1
LoopEnd  == pc = "fetch:loop" /\ next > Len(dateSheets) /\ pc' = "fetch:done"

\* every awaited getSheetData is answered or fails, which ends the turn of the
\* loop, and the return behind the loop is executed
SpecFetchLive == SpecFetch /\ WF_next(LoopTurn) /\ WF_pc(LoopEnd)

(* every call *)

Init == InitCsv \/ InitRow \/ InitSheet \/ InitDate \/ InitMuscle \/ InitStats
          \/ InitMuscleVolume \/ InitHistory \/ InitChange
          \/ InitPeaks \/ InitCorrelate \/ InitMessySheet \/ InitSave
          \/ InitFetch

Next == NextCsv \/ NextRow \/ NextSheet \/ NextDate \/ NextMuscle \/ NextStats
          \/ NextMuscleVolume \/ NextHistory \/ NextChange
          \/ NextPeaks \/ NextCorrelate \/ NextSave
          \/ NextFetch

Spec == Init /\ [][Next]_vars

---------------------------------------------------------------------------
(* Properties of parseExerciseRow, checked under SpecRow *)

\* the number the volume cell of a row parses to (NaN when it does not parse)
SuppliedVolume(r) == parseFloat(At(r, 4)[2])

\* sets[1] * reps[1] + ... + sets[k] * reps[k]
RECURSIVE SumProducts(_, _, _)
SumProducts(sets, reps, k) ==
    IF k = 0 THEN Zero
    ELSE Add(SumProducts(sets, reps, k - 1), Mul(sets[k], reps[k]))

\* the sum over the first k sets of sets[i] * (reps[i] if reps has an entry i, else its last)
RECURSIVE SumProductsLastRep(_, _, _)
SumProductsLastRep(sets, reps, k) ==
    IF k = 0 THEN Zero
    ELSE Add(SumProductsLastRep(sets, reps, k - 1),
             Mul(sets[k], IF k <= Len(reps) THEN reps[k] ELSE reps[Len(reps)]))

(* C1: an accepted row whose volume cell parses to a non-zero number yields
   an exercise with exactly that volume, whatever its sets and reps hold. *)
C1_SuppliedVolumeWins ==
    (pc = "row:done" /\ exercise # <<>> /\ NumTruthy(SuppliedVolume(row)))
        => exercise[1].volume = SuppliedVolume(row)

\* an accepted row whose supplied volume differs from what sets x reps would give
C1_Witness ==
    /\ pc = "row:done"
    /\ exercise # <<>>
    /\ NumTruthy(SuppliedVolume(row))
    /\ Len(exercise[1].sets) > 0
    /\ Len(exercise[1].sets) = Len(exercise[1].reps)
    /\ SumProducts(exercise[1].sets, exercise[1].reps, Len(exercise[1].sets))
           # SuppliedVolume(row)
    /\ exercise[1].volume = SuppliedVolume(row)

(* C2: an accepted row with no (or zero) volume whose sets and reps have the
   same non-zero length gets volume = sum of sets[i] * reps[i], for every
   numeric content of reps, rep counts of 0 included. *)
C2_EqualLengthVolumeIsSumOfProducts ==
    (/\ pc = "row:done"
     /\ exercise # <<>>
     /\ ~NumTruthy(SuppliedVolume(row))
     /\ Len(exercise[1].sets) > 0
     /\ Len(exercise[1].sets) = Len(exercise[1].reps))
        => exercise[1].volume
               = SumProducts(exercise[1].sets, exercise[1].reps, Len(exercise[1].sets))

(* C3: during volume inference set i is multiplied by reps[i] when reps has
   an entry at i, and by the last element of reps only when it has none. *)
C3_LastRepOnlyForMissingEntries ==
    (/\ pc = "row:done"
     /\ exercise # <<>>
     /\ ~NumTruthy(SuppliedVolume(row))
     /\ Len(exercise[1].sets) > 0
     /\ Len(exercise[1].reps) > 0)
        => exercise[1].volume
               = SumProductsLastRep(exercise[1].sets, exercise[1].reps,
                                    Len(exercise[1].sets))

\* the three grounds of rejection, read off the row
RowNameEmpty(r) == IsNullish(At(r, 0)) \/ trim(At(r, 0)[2]) = ""

RowNameIsHeader(r) ==
    \/ includes(toLowerCase(At(r, 0)[2]), "exercise")
    \/ includes(toLowerCase(At(r, 0)[2]), "s1")

RowSets(r) == parseCommaSeparated(Str(ToStringOrEmpty(At(r, 1))))

RowReps(r) == parseCommaSeparated(Str(ToStringOrEmpty(At(r, 3))))

RowIsPlaceholder(r) ==
    /\ RowSets(r) = <<>>
    /\ ~NumTruthy(parseFloat(At(r, 2)[2]))
    /\ ~NumTruthy(SuppliedVolume(r))

(* C5: parseExerciseRow returns null exactly when the trimmed name is empty,
   or the lower-cased name contains "exercise" or "s1", or sets is empty and
   maxWeight and volume both parse to 0; a row with sets but neither reps nor
   volume is accepted with volume 0. *)
C5_NullExactlyWhenRejected ==
    pc = "row:done" =>
        /\ (exercise = <<>>)
               <=> (RowNameEmpty(row) \/ RowNameIsHeader(row) \/ RowIsPlaceholder(row))
        /\ (/\ ~RowNameEmpty(row)
            /\ ~RowNameIsHeader(row)
            /\ RowSets(row) # <<>>
            /\ RowReps(row) = <<>>
            /\ ~NumTruthy(SuppliedVolume(row)))
               => (exercise # <<>> /\ exercise[1].volume = Zero)

\* a row with a proper name and reps but no sets, kept because it has a max weight
C5_Witness ==
    /\ pc = "row:done"
    /\ ~RowNameEmpty(row)
    /\ ~RowNameIsHeader(row)
    /\ RowSets(row) = <<>>
    /\ RowReps(row) # <<>>
    /\ NumTruthy(parseFloat(At(row, 2)[2]))
    /\ ~NumTruthy(SuppliedVolume(row))
    /\ exercise # <<>>

---------------------------------------------------------------------------
(* Properties of parseCommaSeparated, checked under SpecCsv *)

\* the positions of the comma-separated tokens of s that parse as numbers
NumericTokens(s) ==
    {k \in 1..Len(split(s, ",")) : ~isNaN(parseFloat(trim(split(s, ",")[k])))}

\* the j-th smallest element of a set of integers
Nth(S, j) == CHOOSE k \in S : Cardinality({h \in S : h <= k}) = j

(* C7: parseCommaSeparated returns exactly the tokens that parse as numbers,
   in their left-to-right order; tokens that do not parse are dropped without
   moving the others; a null, undefined, empty or non-string argument gives
   the empty array. *)
C7_NumericTokensInOrder ==
    pc = "csv:done" =>
        /\ (value[1] # "string" \/ value[2] = "") => parsed = <<>>
        /\ (value[1] = "string" /\ value[2] # "") =>
               /\ Len(parsed) = Cardinality(NumericTokens(value[2]))
               /\ \A j \in 1..Len(parsed) :
                      parsed[j] = parseFloat(trim(
                          split(value[2], ",")[Nth(NumericTokens(value[2]), j)]))
        /\ value = Str("8,8,8,") => parsed = <<IntNum(8), IntNum(8), IntNum(8)>>
        /\ value = Str("100, abc, 200") => parsed = <<IntNum(100), IntNum(200)>>

\* a token dropped between two kept ones, the second of them a zero
C7_Witness ==
    /\ pc = "csv:done"
    /\ value = Str("1,,0")
    /\ parsed = <<IntNum(1), Zero>>

---------------------------------------------------------------------------
(* Properties of parseWorksheet, checked under SpecSheet *)

\* the sum of the volumes of a sequence of exercises
RECURSIVE SumVolumes(_)
SumVolumes(exs) ==
    IF exs = <<>> THEN Zero
    ELSE Add(SumVolumes(SubSeq(exs, 1, Len(exs) - 1)), exs[Len(exs)].volume)

\* the exercises parseExerciseRow gives for rows lo .. hi of rs, nulls left out
RECURSIVE AcceptedRange(_, _, _, _)
AcceptedRange(rs, cm, lo, hi) ==
    IF lo > hi \/ lo > Len(rs) THEN <<>>
    ELSE parseExerciseRow(rs[lo], cm) \o AcceptedRange(rs, cm, lo + 1, hi)

AcceptedFrom(rs, cm, k) == AcceptedRange(rs, cm, k, Len(rs))

(* C4: after every row parseWorksheet has processed, totalVolume is the sum
   of the volumes of the exercises accepted so far; the returned workout has
   totalVolume = sum of exercises[].volume and exerciseCount =
   exercises.length. *)
C4_TotalVolumeIsSumOfAccepted ==
    /\ pc = "sheet:loop" => totalVolume = SumVolumes(exercises)
    /\ pc = "sheet:done" =>
           /\ workout[1].totalVolume = SumVolumes(workout[1].exercises)
           /\ workout[1].exerciseCount = Len(workout[1].exercises)

\* a returned workout of two exercises with volume, one row having been rejected
C4_Witness ==
    /\ pc = "sheet:done"
    /\ Len(rows) = 4
    /\ workout[1].exerciseCount = 2
    /\ workout[1].exercises[1].volume # Zero
    /\ workout[1].exercises[2].volume # Zero
    /\ workout[1].totalVolume
           = Add(workout[1].exercises[1].volume, workout[1].exercises[2].volume)

(* C6: parseWorksheet never parses row 0, passes every later row to
   parseExerciseRow and returns the accepted exercises in the order of their
   rows; rejected rows add nothing to exercises, totalVolume, exerciseCount. *)
C6_RowZeroSkippedOrderKept ==
    /\ pc = "sheet:loop" =>
           exercises = AcceptedRange(rows, customMappings, 2, next - 1)
    /\ pc = "sheet:done" =>
           /\ workout[1].exercises = AcceptedFrom(rows, customMappings, 2)
           /\ workout[1].exerciseCount = Len(AcceptedFrom(rows, customMappings, 2))
           /\ workout[1].totalVolume = SumVolumes(AcceptedFrom(rows, customMappings, 2))

\* row 0 holds a valid exercise, row 1 is rejected, row 2 is accepted
C6_Witness ==
    /\ pc = "sheet:done"
    /\ Len(rows) = 3
    /\ parseExerciseRow(rows[1], customMappings) # <<>>
    /\ parseExerciseRow(rows[2], customMappings) = <<>>
    /\ parseExerciseRow(rows[3], customMappings) # <<>>
    /\ rows[1] # rows[3]
    /\ workout[1].exercises = parseExerciseRow(rows[3], customMappings)

---------------------------------------------------------------------------
(* Properties of parseDateString, checked under SpecDate *)

IsLeapYear(y) == (y % 4 = 0 /\ y % 100 # 0) \/ y % 400 = 0

DaysInMonth(y, m) ==
    IF m = 2 THEN (IF IsLeapYear(y) THEN 29 ELSE 28)
    ELSE IF m \in {4, 6, 9, 11} THEN 30 ELSE 31

\* the year a year part y >= 0 stands for
ExpectedYear(y) ==
    IF y \in 51..99 THEN 1900 + y ELSE IF y \in 0..50 THEN 2000 + y ELSE y

\* the parts of a label that is a string
LabelParts(label) == split(label[2], "/")

\* a string label of three parts that all start with an integer
ThreeIntegerParts(label) ==
    /\ Truthy(label)
    /\ label[1] = "string"
    /\ Len(LabelParts(label)) = 3
    /\ \A k \in 1..3 : ~isNaN(parseInt(LabelParts(label)[k]))

MonthPart(label) == parseInt(LabelParts(label)[1])[1]
DayPart(label)   == parseInt(LabelParts(label)[2])[1]
YearPart(label)  == parseInt(LabelParts(label)[3])[1]

\* month and day of the label name a day of the calendar
InCalendarRange(label) ==
    /\ MonthPart(label) \in 1..12
    /\ DayPart(label) \in 1..DaysInMonth(ExpectedYear(YearPart(label)), MonthPart(label))

(* C8: parseDateString maps a year part y in 51..99 to 1900 + y, y in 0..50
   to 2000 + y and uses y >= 100 unchanged; the month part is the 1-based
   month and the day part the day of the month of the returned date. *)
C8_YearPivotMonthDay ==
    (/\ pc = "date:done"
     /\ ThreeIntegerParts(sheetName)
     /\ YearPart(sheetName) >= 0
     /\ InCalendarRange(sheetName))
        => /\ dateObject # <<>>
           /\ getFullYear(dateObject[1]) = ExpectedYear(YearPart(sheetName))
           /\ getMonth(dateObject[1]) = MonthPart(sheetName) - 1
           /\ getDate(dateObject[1]) = DayPart(sheetName)

\* a two-digit year above the pivot, on the last day of a month
C8_Witness ==
    /\ pc = "date:done"
    /\ sheetName = Str("12/31/51")
    /\ dateObject # <<>>
    /\ getFullYear(dateObject[1]) = 1951
    /\ getMonth(dateObject[1]) = 11
    /\ getDate(dateObject[1]) = 31

(* C9: parseDateString returns null for every label that is not of the shape
   M/D/YYYY or M/D/YY: an empty or missing label, a label that does not split
   into exactly 3 parts on "/", a label with a non-numeric part, a label
   whose month or day is out of calendar range. *)
C9_NullUnlessDateShape ==
    (/\ pc = "date:done"
     /\ \/ ~ThreeIntegerParts(sheetName)
        \/ ~InCalendarRange(sheetName))
        => dateObject = <<>>

---------------------------------------------------------------------------
(* Properties of getMuscleGroups, checked under SpecMuscle *)

(* C10: getMuscleGroups returns the custom mapping's list whenever
   customMappings has a key equal to the lower-cased, trimmed exercise name,
   whatever exact or partial match the default table has for that name. *)
C10_CustomExactWins ==
    pc = "muscle:done" =>
        \A j \in 1..Len(customMappings) :
            customMappings[j][1] = trim(toLowerCase(exerciseName))
                => muscles[1] = customMappings[j][2]

\* a custom entry for a name the default table also holds, with another list
C10_Witness ==
    /\ pc = "muscle:done"
    /\ exerciseName = "Bicep Curl"
    /\ HasKey(customMappings, "bicep curl")
    /\ HasKey(DEFAULT_MUSCLE_MAPPINGS, "bicep curl")
    /\ muscles[1] = <<"biceps", "forearms">>
    /\ muscles[1] # Get(DEFAULT_MUSCLE_MAPPINGS, "bicep curl")

\* one string contains the other
Related(a, b) == includes(a, b) \/ includes(b, a)

\* the entries of mapping m whose key is related to the name n
RelatedEntries(m, n) == {j \in 1..Len(m) : Related(n, m[j][1])}

\* the least element of a non-empty set of positions
Least(S) == CHOOSE j \in S : \A h \in S : j <= h

(* C11: when customMappings has no key equal to the normalized name, a
   default key equal to it gives the result; otherwise the first default
   key, in table order, that contains the name or is contained in it;
   otherwise the first such custom key; otherwise the empty list. *)
C11_DefaultBeforeCustomPartial ==
    (pc = "muscle:done" /\ ~HasKey(customMappings, trim(toLowerCase(exerciseName))))
        => LET n  == trim(toLowerCase(exerciseName))
               D  == DEFAULT_MUSCLE_MAPPINGS
               eq == {j \in 1..Len(D) : D[j][1] = n}
               rd == RelatedEntries(D, n)
               rc == RelatedEntries(customMappings, n)
           IN  /\ eq # {} => muscles[1] = D[Least(eq)][2]
               /\ (eq = {} /\ rd # {}) => muscles[1] = D[Least(rd)][2]
               /\ (eq = {} /\ rd = {} /\ rc # {})
                      => muscles[1] = customMappings[Least(rc)][2]
               /\ (eq = {} /\ rd = {} /\ rc = {}) => muscles[1] = <<>>

\* "curl" is part of several default keys and of the custom key "bicep curl":
\* the first default key in table order gives the list, though a later
\* default key and the custom key hold other lists
C11_Witness ==
    /\ pc = "muscle:done"
    /\ exerciseName = "curl"
    /\ ~HasKey(customMappings, "curl")
    /\ RelatedEntries(customMappings, "curl") # {}
    /\ LET rd == RelatedEntries(DEFAULT_MUSCLE_MAPPINGS, "curl")
       IN  /\ Cardinality(rd) > 1
           /\ muscles[1] = DEFAULT_MUSCLE_MAPPINGS[Least(rd)][2]
           /\ \E j \in rd : DEFAULT_MUSCLE_MAPPINGS[j][2] # muscles[1]
           /\ muscles[1] # customMappings[Least(RelatedEntries(customMappings, "curl"))][2]

(* C12: two exercise names with the same lower-cased, trimmed form give the
   same muscle list under the same customMappings: the list returned for
   exerciseName is the list of every other name of that form. *)
C12_CaseAndWhitespaceInvariant ==
    pc = "muscle:done" =>
        \A other \in ExerciseNamePool :
            trim(toLowerCase(other)) = trim(toLowerCase(exerciseName))
                => getMuscleGroups(other, customMappings) = muscles[1]

\* a name in capitals gets the list of its padded lower-case spelling
C12_Witness ==
    /\ pc = "muscle:done"
    /\ exerciseName = "Bicep Curl"
    /\ "  bicep curl  " \in ExerciseNamePool
    /\ "  bicep curl  " # exerciseName
    /\ trim(toLowerCase("  bicep curl  ")) = trim(toLowerCase(exerciseName))
    /\ muscles[1] # <<>>
    /\ muscles[1] = getMuscleGroups("  bicep curl  ", customMappings)

---------------------------------------------------------------------------
(* Properties of calculateStats, checked under SpecStats *)

\* the positions <<i, k>> of the exercises of ws: exercise k of workout i
ExercisePositions(ws) ==
    UNION {{<<i, k>> : k \in 1..Len(ws[i].exercises)} : i \in 1..Len(ws)}

ExerciseAt(ws, pos) == ws[pos[1]].exercises[pos[2]]

\* the positions of the exercises whose lower-cased name is n
PositionsNamed(ws, n) ==
    {pos \in ExercisePositions(ws) : toLowerCase(ExerciseAt(ws, pos).name) = n}

LoweredNames(ws) ==
    {toLowerCase(ExerciseAt(ws, pos).name) : pos \in ExercisePositions(ws)}

\* the greatest maxWeight of the exercises named n
BestWeight(ws, n) ==
    LET P == PositionsNamed(ws, n)
        b == CHOOSE pos \in P :
                 \A q \in P : ~Lt(ExerciseAt(ws, pos).maxWeight, ExerciseAt(ws, q).maxWeight)
    IN  ExerciseAt(ws, b).maxWeight

\* the first workout, in input order, where an exercise named n reaches weight w
FirstWorkoutReaching(ws, n, w) ==
    LET I == {pos[1] : pos \in {q \in PositionsNamed(ws, n) : ExerciseAt(ws, q).maxWeight = w}}
    IN  CHOOSE i \in I : \A h \in I : i <= h

\* the returned records whose lower-cased name is n
RecordsNamed(st, n) ==
    {j \in 1..Len(st.personalRecords) : toLowerCase(st.personalRecords[j].name) = n}

\* the one record of name n carries the best weight and the date of the first
\* workout reaching it
RecordIsBest(ws, st, n) ==
    /\ Cardinality(RecordsNamed(st, n)) = 1
    /\ \A j \in RecordsNamed(st, n) :
          /\ st.personalRecords[j].weight = BestWeight(ws, n)
          /\ st.personalRecords[j].date = ws[FirstWorkoutReaching(ws, n, BestWeight(ws, n))].date

(* C13 as stated: every lower-cased exercise name whose greatest maxWeight is
   not 0 has exactly one personal record, with that weight and the date of
   the first workout reaching it; a name whose greatest maxWeight is 0 has
   none; prCount is the number of records. *)
C13_RecordUnlessZero ==
    pc = "stats:done" =>
        /\ \A n \in LoweredNames(workouts) :
              IF BestWeight(workouts, n) = Zero
              THEN RecordsNamed(stats[1], n) = {}
              ELSE RecordIsBest(workouts, stats[1], n)
        /\ stats[1].prCount = Len(stats[1].personalRecords)

(* C13, amended: every lower-cased exercise name whose greatest maxWeight is
   positive has exactly one personal record, with that weight and the date
   of the first workout, in input order, reaching it (a later equal weight
   does not replace it); a name whose greatest maxWeight is 0 or negative
   has none; every record is of such a name; prCount is the number of
   records. *)
C13_RecordWhenPositive ==
    pc = "stats:done" =>
        /\ \A n \in LoweredNames(workouts) :
              IF Lt(Zero, BestWeight(workouts, n))
              THEN RecordIsBest(workouts, stats[1], n)
              ELSE RecordsNamed(stats[1], n) = {}
        /\ \A j \in 1..Len(stats[1].personalRecords) :
              toLowerCase(stats[1].personalRecords[j].name) \in LoweredNames(workouts)
        /\ stats[1].prCount = Len(stats[1].personalRecords)

\* the best weight 185 is reached on 1/29 and again, in lower case, on 1/30:
\* the record is dated 1/29; the exercise without weight has no record
C13_Witness ==
    /\ pc = "stats:done"
    /\ Len(workouts) = 3
    /\ workouts[1].date = Str("1/28/2026")
    /\ workouts[2].date = Str("1/29/2026")
    /\ workouts[3].date = Str("1/30/2026")
    /\ BestWeight(workouts, "bench press") = IntNum(185)
    /\ Cardinality({pos[1] : pos \in {q \in PositionsNamed(workouts, "bench press") :
                       ExerciseAt(workouts, q).maxWeight = IntNum(185)}}) = 2
    /\ BestWeight(workouts, "plank") = Zero
    /\ stats[1].prCount = 1
    /\ stats[1].personalRecords[1] =
           [name |-> "Bench Press", weight |-> IntNum(185), date |-> Str("1/29/2026")]

\* all exercises of all workouts, in input order
RECURSIVE AllExercises(_)
AllExercises(ws) ==
    IF ws = <<>> THEN <<>>
    ELSE AllExercises(SubSeq(ws, 1, Len(ws) - 1)) \o ws[Len(ws)].exercises

(* C14: for workouts produced by parseWorksheet, calculateStats reports
   totalWorkouts = the number of workouts, totalExercises = the number of
   accepted exercises of all of them, and totalVolume = the sum of the
   volumes of all these exercises, those without a muscle group included. *)
C14_TotalsAreSums ==
    pc = "stats:done" =>
        /\ stats[1].totalWorkouts = Len(workouts)
        /\ stats[1].totalExercises = Len(AllExercises(workouts))
        /\ stats[1].totalVolume = SumVolumes(AllExercises(workouts))

\* three workouts, one of them with two exercises of which one has no muscle
\* group: four exercises and their four volumes are counted
C14_Witness ==
    /\ pc = "stats:done"
    /\ Len(workouts) = 3
    /\ stats[1].totalWorkouts = 3
    /\ stats[1].totalExercises = 4
    /\ \E i \in 1..3 : \E k \in 1..Len(workouts[i].exercises) :
          /\ workouts[i].exercises[k].muscleGroups = <<>>
          /\ workouts[i].exercises[k].volume = IntNum(500)
    /\ workouts[1].totalVolume = IntNum(2590)
    /\ workouts[2].totalVolume = IntNum(3060)
    /\ stats[1].totalVolume = IntNum(2590 + 3060 + 500 - 320)

---------------------------------------------------------------------------
(* Properties of calculateMuscleVolume, checked under SpecMuscleVolume *)

\* how many times muscle stands in the list groups
RECURSIVE Occurrences(_, _)
Occurrences(groups, muscle) ==
    IF groups = <<>> THEN 0
    ELSE Occurrences(Tail(groups), muscle) + (IF Head(groups) = muscle THEN 1 ELSE 0)

\* the sum, over the exercises exs, of the shares volume / (number of muscle
\* groups) that go to muscle
RECURSIVE ShareSum(_, _)
ShareSum(exs, muscle) ==
    IF exs = <<>> THEN FracZero
    ELSE LET ex == exs[Len(exs)]
             n  == Occurrences(ex.muscleGroups, muscle)
         IN  FracAdd(ShareSum(SubSeq(exs, 1, Len(exs) - 1), muscle),
                     IF n = 0 THEN FracZero
                     ELSE Frac(n * ex.volume[1],
                               Pow10(ex.volume[2]) * Len(ex.muscleGroups)))

\* the sum of the volumes of the exercises exs that have a muscle group
RECURSIVE AttributedVolume(_)
AttributedVolume(exs) ==
    IF exs = <<>> THEN FracZero
    ELSE FracAdd(AttributedVolume(SubSeq(exs, 1, Len(exs) - 1)),
                 IF exs[Len(exs)].muscleGroups = <<>> THEN FracZero
                 ELSE FracOf(exs[Len(exs)].volume))

\* the sum of the volumes of the first k buckets of mv
RECURSIVE BucketSum(_, _)
BucketSum(mv, k) ==
    IF k = 0 THEN FracZero ELSE FracAdd(BucketSum(mv, k - 1), mv[k][2].volume)

\* the muscle groups named by the exercises exs
MusclesOf(exs) ==
    UNION {{exs[j].muscleGroups[g] : g \in 1..Len(exs[j].muscleGroups)} : j \in 1..Len(exs)}

Keys(m) == {m[j][1] : j \in 1..Len(m)}

(* C15: before rounding, the bucket of each muscle holds the sum of the
   shares volume / (number of muscle groups) of the exercises naming it, the
   buckets are those of the muscles some exercise names (an exercise
   without muscle group creates none), and the buckets add up to the total
   volume of the exercises that have a muscle group; the returned volume of
   each muscle is that accumulated sum rounded once. *)
C15_SharesSummedThenRounded ==
    LET exs == AllExercises(workouts)
    IN  /\ pc = "volume:return" =>
              /\ Keys(muscleVolume[1]) = MusclesOf(exs)
              /\ \A j \in 1..Len(muscleVolume[1]) :
                    muscleVolume[1][j][2].volume = ShareSum(exs, muscleVolume[1][j][1])
              /\ BucketSum(muscleVolume[1], Len(muscleVolume[1])) = AttributedVolume(exs)
        /\ pc = "volume:done" =>
              /\ Keys(muscleVolume[1]) = MusclesOf(exs)
              /\ \A j \in 1..Len(muscleVolume[1]) :
                    muscleVolume[1][j][2].volume =
                        MathRound(ShareSum(exs, muscleVolume[1][j][1]))

\* two sessions of an exercise of volume 61 with two muscle groups give each
\* muscle 30.5 twice: 61 is returned, where rounding each share gives 62; an
\* exercise without muscle group is among the workouts
C15_Witness ==
    /\ pc = "volume:done"
    /\ \E j \in 1..Len(AllExercises(workouts)) : AllExercises(workouts)[j].muscleGroups = <<>>
    /\ \E j \in 1..Len(muscleVolume[1]) :
          /\ muscleVolume[1][j][1] = "abs"
          /\ ShareSum(AllExercises(workouts), "abs") = Frac(61, 1)
          /\ muscleVolume[1][j][2].volume = 61
          /\ muscleVolume[1][j][2].exercises = <<"Plank">>

---------------------------------------------------------------------------
(* Properties of calculateExerciseHistory, checked under SpecHistory *)

\* exercise ex goes by the name asked for
NamedLike(ex, name) == trim(toLowerCase(ex.name)) = trim(toLowerCase(name))

\* the workouts of ws, by index, that are dated strictly before ref and hold
\* an exercise of that name
HistoryMatches(ws, name, ref) ==
    {i \in 1..Len(ws) :
        /\ ws[i].dateObject # <<>>
        /\ Lt(ws[i].dateObject[1], ref)
        /\ \E k \in 1..Len(ws[i].exercises) : NamedLike(ws[i].exercises[k], name)}

\* the workouts of ws whose index is in I, in the order of ws
RECURSIVE Restrict(_, _)
Restrict(ws, I) ==
    IF ws = <<>> THEN <<>>
    ELSE Restrict(SubSeq(ws, 1, Len(ws) - 1), I)
         \o (IF Len(ws) \in I THEN <<ws[Len(ws)]>> ELSE <<>>)

\* session s holds the figures of an exercise of that name of workout w
SessionOf(s, w, name) ==
    /\ s.date = w.dateObject[1]
    /\ \E k \in 1..Len(w.exercises) :
          /\ NamedLike(w.exercises[k], name)
          /\ s.volume = w.exercises[k].volume
          /\ s.maxWeight = w.exercises[k].maxWeight
          /\ s.sets = w.exercises[k].sets
          /\ s.reps = w.exercises[k].reps

(* C16: with a referenceDate, the result is the one the matching workouts
   alone give (a workout dated at or after referenceDate, undated, or
   without the exercise changes no field), every match is a session of
   allTimeAvg, and previousSession is null iff there is no match and is
   otherwise the session of a match no other match is later than, whatever
   the order of allWorkouts. *)
C16_HistoryOfMatchesOnly ==
    (pc = "history:done" /\ currentDate # <<>>) =>
        LET M == HistoryMatches(workouts, exerciseName, currentDate[1])
        IN  /\ history[1] = calculateExerciseHistory(exerciseName, currentDate,
                                                     Restrict(workouts, M), now)
            /\ history[1].allTimeAvg.sessions = Cardinality(M)
            /\ (history[1].previousSession = <<>>) <=> (M = {})
            /\ M # {} =>
                  \E i \in M :
                      /\ \A h \in M : ~Lt(workouts[i].dateObject[1], workouts[h].dateObject[1])
                      /\ SessionOf(history[1].previousSession[1], workouts[i], exerciseName)

\* the workouts of 1/22, 1/28 and 1/29 in that order, seen from 1/29: the
\* workout of 1/29 is left out and the session of 1/28, the later of the
\* two matches, is the previous one though it comes second
C16_Witness ==
    /\ pc = "history:done"
    /\ currentDate = <<DateOf("1/29/2026")>>
    /\ Len(workouts) = 3
    /\ workouts[1].date = Str("1/22/2026")
    /\ workouts[2].date = Str("1/28/2026")
    /\ workouts[3].date = Str("1/29/2026")
    /\ HistoryMatches(workouts, exerciseName, currentDate[1]) = {1, 2}
    /\ history[1].previousSession[1].date = DateOf("1/28/2026")
    /\ history[1].previousSession[1].volume = IntNum(2590)
    /\ history[1].allTimeAvg.sessions = 2

\* the anchor of the windows: referenceDate, or the current time without one
Anchor == IF currentDate # <<>> THEN currentDate[1] ELSE now

\* the matches: the dated workouts holding the exercise, before the
\* referenceDate when there is one
AnchoredMatches(ws, name) ==
    {i \in 1..Len(ws) :
        /\ ws[i].dateObject # <<>>
        /\ currentDate # <<>> => Lt(ws[i].dateObject[1], currentDate[1])
        /\ \E k \in 1..Len(ws[i].exercises) : NamedLike(ws[i].exercises[k], name)}

\* the matches dated within the last days days before the anchor
WithinLast(ws, name, days) ==
    {i \in AnchoredMatches(ws, name) :
        /\ ~Lt(ws[i].dateObject[1], Add(Anchor, IntNum(-days)))
        /\ ~Lt(Anchor, ws[i].dateObject[1])}

\* the exercise of that name of workout w
NamedExercise(w, name) ==
    w.exercises[CHOOSE k \in 1..Len(w.exercises) :
                    /\ NamedLike(w.exercises[k], name)
                    /\ \A h \in 1..(k - 1) : ~NamedLike(w.exercises[h], name)]

\* the sum of a field of the exercise of that name over the workouts ws
RECURSIVE SumOfNamed(_, _, _)
SumOfNamed(ws, name, field) ==
    IF ws = <<>> THEN Zero
    ELSE Add(SumOfNamed(Tail(ws), name, field), NamedExercise(Head(ws), name)[field])

\* avg is the window average of the matches I: their number, and null
\* averages when there is none, the rounded means otherwise
IsWindowOf(avg, ws, name, I) ==
    /\ avg.sessions = Cardinality(I)
    /\ (avg.volume = <<>>) <=> (avg.sessions = 0)
    /\ (avg.maxWeight = <<>>) <=> (avg.sessions = 0)
    /\ I # {} =>
          /\ avg.volume = <<MathRound(FracDiv(SumOfNamed(Restrict(ws, I), name, "volume"),
                                              Cardinality(I)))>>
          /\ avg.maxWeight = <<MathRound(FracDiv(SumOfNamed(Restrict(ws, I), name, "maxWeight"),
                                                 Cardinality(I)))>>

(* C17: oneWeekAvg, twoWeekAvg and fourWeekAvg count the matches dated
   within the last 7, 14 and 28 days before the anchor (referenceDate, or
   the current time without one) and allTimeAvg counts all matches; in each
   window the averages are null exactly when sessions is 0 and are the
   rounded means of the window otherwise. *)
C17_WindowsOfLastDays ==
    pc = "history:done" =>
        /\ IsWindowOf(history[1].oneWeekAvg, workouts, exerciseName,
                      WithinLast(workouts, exerciseName, 7))
        /\ IsWindowOf(history[1].twoWeekAvg, workouts, exerciseName,
                      WithinLast(workouts, exerciseName, 14))
        /\ IsWindowOf(history[1].fourWeekAvg, workouts, exerciseName,
                      WithinLast(workouts, exerciseName, 28))
        /\ IsWindowOf(history[1].allTimeAvg, workouts, exerciseName,
                      AnchoredMatches(workouts, exerciseName))

---------------------------------------------------------------------------
(* Properties of calculateChange, checked under SpecChange *)

\* current - previous and previous as integers over one power of ten
ChangeScale == Pow10(Max2(current[2], previous[1][2]))
ScaledCurrent  == current[1] * (ChangeScale \div Pow10(current[2]))
ScaledPrevious == previous[1][1] * (ChangeScale \div Pow10(previous[1][2]))

(* C18: when previous is null or 0 the result is {percentage: null,
   direction: 'neutral', display: 'N/A'}; for every other previous,
   percentage = (current - previous) / previous * 100, direction is 'up'
   for a positive percentage, 'down' for a negative one and 'neutral' for
   zero, and display starts with '+' exactly when the percentage is
   positive. *)
C18_ChangeGuardedAndSigned ==
    pc = "change:done" =>
        IF previous = <<>> \/ previous[1] = Zero
        THEN change[1] = [percentage |-> <<>>, direction |-> "neutral", display |-> "N/A"]
        ELSE LET pct  == change[1].percentage[1]
                 diff == ScaledCurrent - ScaledPrevious
                 sign == IF (diff > 0) = (ScaledPrevious > 0) THEN 1 ELSE -1
             IN  /\ change[1].percentage # <<>>
                 /\ pct = (IF ScaledPrevious < 0 THEN Frac(-(diff * 100), -ScaledPrevious)
                           ELSE Frac(diff * 100, ScaledPrevious))
                 /\ change[1].direction =
                        (IF diff = 0 THEN "neutral" ELSE IF sign = 1 THEN "up" ELSE "down")
                 /\ (CharAt(change[1].display, 1) = "+") <=> (diff # 0 /\ sign = 1)
                 /\ CharAt(change[1].display, Len(change[1].display)) = "%"

\* previous 0 gives the N/A object though current is not 0
C18_Witness ==
    /\ pc = "change:done"
    /\ previous = <<Zero>>
    /\ current = IntNum(2590)
    /\ change[1].percentage = <<>>
    /\ change[1].display = "N/A"

---------------------------------------------------------------------------
(* Properties of detectHRPeaks, checked under SpecPeaks *)

\* the indices the for loop scans
Scanned == {i \in 0..(Len(hrData) - 1) :
               options.windowSize <= i /\ i < Len(hrData) - options.windowSize}

\* the indices of the returned peaks
PeakIndices == {peaks[1][k].index : k \in 1..Len(peaks[1])}

\* hr[i] >= every value at the indices i - windowSize .. i + windowSize
MaxOfWholeWindow(i) ==
    \A j \in (i - options.windowSize)..(i + options.windowSize) :
        (0 <= j /\ j < Len(hrData)) => hrData[j + 1] <= hrData[i + 1]

\* the returned peaks before index i
PeaksBefore(i) == {k \in 1..Len(peaks[1]) : peaks[1][k].index < i}

\* index i is far enough from the peak accepted last before it, if any
DistantFromPrevious(i) ==
    \/ PeaksBefore(i) = {}
    \/ LET last == CHOOSE k \in PeaksBefore(i) : \A h \in PeaksBefore(i) : h <= k
       IN  timeData[i + 1] - peaks[1][last].time >= options.minPeakDistance

(* C19: an index i of the scanned range is a returned peak if and only if
   (a) hr[i] is >= every value at the indices i - windowSize .. i +
   windowSize, both ends included, (b) hr[i] exceeds the rolling average at
   i by more than thresholdAboveAvg, and (c) time[i] is at least
   minPeakDistance after the time of the peak accepted before it, or no
   peak was accepted before it. *)
C19_PeakIffMaxAboveDistant ==
    pc = "peaks:done" =>
        /\ PeakIndices \subseteq Scanned
        /\ \A i \in Scanned :
              (i \in PeakIndices) <=>
                  /\ MaxOfWholeWindow(i)
                  /\ IsAboveThreshold(hrData, i, options.thresholdAboveAvg)
                  /\ DistantFromPrevious(i)

\* index i passes the tests of the loop that do not look at earlier peaks
Qualifies(i) ==
    /\ IsLocalMax(hrData, i, options.windowSize)
    /\ IsAboveThreshold(hrData, i, options.thresholdAboveAvg)

\* timeData grows from sample to sample
TimeIncreasing == \A j \in 1..(Len(timeData) - 1) : timeData[j] < timeData[j + 1]

(* C20: the returned peaks are in strictly increasing index order, each
   carrying the time and heart rate of its index; when timeData is
   increasing, two consecutive peaks are at least minPeakDistance apart;
   and a qualifying index closer than minPeakDistance to the peak accepted
   last before it is not returned, whatever its heart rate. *)
C20_OrderedDistantGreedy ==
    pc = "peaks:done" =>
        /\ \A k \in 1..Len(peaks[1]) :
              /\ peaks[1][k].index \in Scanned
              /\ peaks[1][k].time = timeData[peaks[1][k].index + 1]
              /\ peaks[1][k].hr = hrData[peaks[1][k].index + 1]
        /\ \A k \in 1..(Len(peaks[1]) - 1) :
              /\ peaks[1][k].index < peaks[1][k + 1].index
              /\ TimeIncreasing =>
                    peaks[1][k + 1].time - peaks[1][k].time >= options.minPeakDistance
        /\ \A i \in Scanned :
              (Qualifies(i) /\ ~DistantFromPrevious(i)) => i \notin PeakIndices

\* the peak of 100 at index 1 is accepted; the higher one of 120 at index 3,
\* two seconds later with minPeakDistance 3, qualifies and is dropped
C20_Witness ==
    /\ pc = "peaks:done"
    /\ hrData = <<60, 100, 60, 120, 60>>
    /\ timeData = <<0, 1, 2, 3, 4>>
    /\ options.minPeakDistance = 3
    /\ PeakIndices = {1}
    /\ Qualifies(3)
    /\ hrData[3 + 1] > peaks[1][1].hr
    /\ timeData[3 + 1] - peaks[1][1].time < options.minPeakDistance

(* C26: every returned peak has an index i with windowSize <= i and
   i < length - windowSize, so that an array of at most 2 * windowSize
   samples yields no peak. *)
C26_PeaksInsideMargins ==
    pc = "peaks:done" =>
        /\ \A k \in 1..Len(peaks[1]) :
              /\ options.windowSize <= peaks[1][k].index
              /\ peaks[1][k].index < Len(hrData) - options.windowSize
        /\ Len(hrData) <= 2 * options.windowSize => peaks[1] = <<>>

\* with windowSize 2 the five samples leave index 2 alone to be scanned: it
\* is returned, and the higher sample at the last index is not
C26_Witness ==
    /\ pc = "peaks:done"
    /\ options.windowSize = 2
    /\ hrData = <<60, 60, 100, 60, 120>>
    /\ PeakIndices = {2}

---------------------------------------------------------------------------
(* Properties of detectHRPeaks followed by correlateSetsToHR, checked under
   SpecCorrelate *)

\* the heart-rate array handed to detectHRPeaks is missing or empty
NoHeartRate == streams.heartrate = <<>> \/ streams.heartrate[1] = <<>>

\* the heart-rate array is not empty and all its samples are equal
FlatHeartRate ==
    /\ ~NoHeartRate
    /\ \A j \in 1..Len(streams.heartrate[1]) : streams.heartrate[1][j] = streams.heartrate[1][1]

\* detectHRPeaks has returned
Detected == pc \in {"correlate:call", "correlate:done"}

\* correlateSetsToHR has returned; Correlated(i) is its entry for set i
CorrelateDone == pc = "correlate:done"
Correlated(i) == correlatedSets[1][i]

\* entry i of the result is set i with one more property, hrData
IsSetWithHrData(i) ==
    /\ DOMAIN Correlated(i) = DOMAIN allSets[i] \cup {"hrData"}
    /\ \A k \in DOMAIN allSets[i] : Correlated(i)[k] = allSets[i][k]

(* C21: on a missing or empty heart-rate array detectHRPeaks returns the
   empty list; on a flat array with the default threshold of 15 it returns
   the empty list; and correlateSetsToHR given null or empty peaks, or no
   sets, returns one entry per input set, each the set with hrData null. *)
C21_NothingToDetectOrCorrelate ==
    /\ (Detected /\ NoHeartRate) => peaks[1] = <<>>
    /\ (Detected /\ FlatHeartRate /\ options.thresholdAboveAvg = 15) => peaks[1] = <<>>
    /\ (CorrelateDone /\ (peaksArg = <<>> \/ peaksArg[1] = <<>> \/ allSets = <<>>))
          => /\ Len(correlatedSets[1]) = Len(allSets)
             /\ \A i \in 1..Len(allSets) :
                   IsSetWithHrData(i) /\ Correlated(i).hrData = <<>>

\* a flat stream long enough for the default window to be scanned gave the
\* empty list, which was handed over with three sets
C21_Witness ==
    /\ CorrelateDone
    /\ FlatHeartRate
    /\ Len(streams.heartrate[1]) > 2 * options.windowSize
    /\ options.thresholdAboveAvg = 15
    /\ peaksArg = <<<<>>>>
    /\ Len(allSets) = MaxSets
    /\ \A i \in 1..Len(allSets) : Correlated(i).hrData = <<>>

\* the peaks handed to correlateSetsToHR, none when null was handed over
GivenPeaks == IF peaksArg = <<>> THEN <<>> ELSE peaksArg[1]

\* set i carries a timestamp, be it 0
CarriesTimestamp(i) == allSets[i].timestamp # <<>>

\* the distance in seconds of peak k from the timestamp of set i
PeakDistance(k, i) == Abs(GivenPeaks[k].time - allSets[i].timestamp[1])

\* the peaks within 60 seconds of the timestamp of set i
PeaksNear(i) == {k \in 1..Len(GivenPeaks) : PeakDistance(k, i) < 60}

\* the hrData of entry i names peak k, matched by the given method
MatchedTo(i, k, method) ==
    /\ Correlated(i).hrData # <<>>
    /\ {"peakHR", "peakTime", "matchedBy"} \subseteq DOMAIN Correlated(i).hrData[1]
    /\ Correlated(i).hrData[1].peakHR = GivenPeaks[k].hr
    /\ Correlated(i).hrData[1].peakTime = GivenPeaks[k].time
    /\ Correlated(i).hrData[1].matchedBy = method

(* C22: when at least one set carries a timestamp, every set with a
   timestamp, a timestamp of 0 included, is matched to a peak nearest to it
   among the peaks less than 60 seconds away and tagged 'timestamp', and has
   hrData null only when no peak is that near; sets without a timestamp have
   hrData null. *)
C22_TimestampMatching ==
    (CorrelateDone /\ \E i \in 1..Len(allSets) : CarriesTimestamp(i))
        => \A i \in 1..Len(allSets) :
              IF ~CarriesTimestamp(i) THEN Correlated(i).hrData = <<>>
              ELSE IF PeaksNear(i) = {} THEN Correlated(i).hrData = <<>>
              ELSE \E k \in PeaksNear(i) :
                      /\ \A j \in PeaksNear(i) : PeakDistance(k, i) <= PeakDistance(j, i)
                      /\ MatchedTo(i, k, "timestamp")

\* no set carries a timestamp
NoTimestamps == \A i \in 1..Len(allSets) : ~CarriesTimestamp(i)

\* min(floor(i / sets.length * peaks.length), peaks.length - 1) for the set of
\* index i, counted from 0 as the peak index is
ExpectedPeakIndex(i) ==
    Min2((i * Len(GivenPeaks)) \div Len(allSets), Len(GivenPeaks) - 1)

\* 0.7 * sets.length <= peaks.length <= 1.5 * sets.length, in tenths
PeakCountNearSetCount ==
    /\ 7 * Len(allSets) <= 10 * Len(GivenPeaks)
    /\ 10 * Len(GivenPeaks) <= 15 * Len(allSets)

(* C23: when no set carries a timestamp and the number of peaks is between
   0.7 and 1.5 times the number of sets, the set of index i is matched to the
   peak of index min(floor(i / sets.length * peaks.length), peaks.length - 1)
   and tagged 'position'; so every set has hrData, and the peak of a later
   set is never an earlier peak. *)
C23_PositionMatching ==
    (CorrelateDone /\ NoTimestamps /\ PeakCountNearSetCount)
        => /\ \A i \in 1..Len(allSets) :
                 /\ IsSetWithHrData(i)
                 /\ MatchedTo(i, ExpectedPeakIndex(i - 1) + 1, "position")
           /\ \A i, j \in 1..Len(allSets) :
                 i <= j => /\ ExpectedPeakIndex(i - 1) <= ExpectedPeakIndex(j - 1)
                           /\ Correlated(i).hrData[1].peakTime
                                 <= Correlated(j).hrData[1].peakTime

\* four sets share three peaks: the first two sets have the same peak
C23_Witness ==
    /\ CorrelateDone
    /\ NoTimestamps
    /\ Len(allSets) = 4
    /\ Len(GivenPeaks) = 3
    /\ MatchedTo(1, 1, "position")
    /\ MatchedTo(2, 1, "position")
    /\ MatchedTo(3, 2, "position")
    /\ MatchedTo(4, 3, "position")

\* the segment of the set of index i (from 0): workoutDuration / sets.length
\* seconds from its start
SegmentStart(i) == Frac(i * Duration(streams.time), Len(allSets))
SegmentEnd(i)   == Frac((i + 1) * Duration(streams.time), Len(allSets))

\* the peaks whose time lies in the segment of set i: start <= time < end
PeaksInSegment(i) ==
    {k \in 1..Len(GivenPeaks) :
        /\ FracLe(SegmentStart(i - 1), Frac(GivenPeaks[k].time, 1))
        /\ ~FracLe(SegmentEnd(i - 1), Frac(GivenPeaks[k].time, 1))}

\* the samples of the segment window of set i: start <= time <= end
SamplesInSegment(i) ==
    {j \in 1..Len(streams.time) :
        /\ FracLe(SegmentStart(i - 1), Frac(streams.time[j], 1))
        /\ FracLe(Frac(streams.time[j], 1), SegmentEnd(i - 1))}

\* the sum of the heart rates of the samples in S
RECURSIVE SumOfSamples(_)
SumOfSamples(S) ==
    IF S = {} THEN 0
    ELSE LET j == CHOOSE x \in S : TRUE
         IN  streams.heartrate[1][j] + SumOfSamples(S \ {j})

\* the hrData of entry i is the summary of the samples in S, without a peak
SummaryOf(i, S) ==
    /\ Correlated(i).hrData # <<>>
    /\ DOMAIN Correlated(i).hrData[1] = {"avgHR", "maxHR", "minHR", "matchedBy"}
    /\ Correlated(i).hrData[1].matchedBy = "segment"
    /\ Correlated(i).hrData[1].avgHR = <<MathRound(Frac(SumOfSamples(S), Cardinality(S)))>>
    /\ \E j \in S : Correlated(i).hrData[1].maxHR = <<streams.heartrate[1][j]>>
    /\ \E j \in S : Correlated(i).hrData[1].minHR = <<streams.heartrate[1][j]>>
    /\ \A j \in S : /\ streams.heartrate[1][j] <= Correlated(i).hrData[1].maxHR[1]
                    /\ Correlated(i).hrData[1].minHR[1] <= streams.heartrate[1][j]

(* C24: when no set carries a timestamp and the number of peaks is outside
   0.7 to 1.5 times the number of sets, the workout duration is split into
   sets.length equal segments; set i gets the peak of highest heart rate
   among the peaks in segment i, the first of them on ties, tagged 'segment';
   without a peak in the segment it gets the avg/max/min summary of the
   samples of the segment, tagged 'segment'; and its hrData is null when the
   segment holds no sample at all. *)
C24_SegmentMatching ==
    (CorrelateDone /\ NoTimestamps /\ GivenPeaks # <<>> /\ ~PeakCountNearSetCount)
        => \A i \in 1..Len(allSets) :
              /\ IsSetWithHrData(i)
              /\ IF PeaksInSegment(i) # {}
                 THEN \E k \in PeaksInSegment(i) :
                         /\ \A j \in PeaksInSegment(i) :
                               \/ GivenPeaks[j].hr < GivenPeaks[k].hr
                               \/ (GivenPeaks[j].hr = GivenPeaks[k].hr /\ k <= j)
                         /\ MatchedTo(i, k, "segment")
                 ELSE IF SamplesInSegment(i) # {}
                 THEN SummaryOf(i, SamplesInSegment(i))
                 ELSE Correlated(i).hrData = <<>>


---------------------------------------------------------------------------
(* Properties of the core functions on messy input, checked under SpecCore *)

\* parseWorksheet has returned
SheetDone == pc = "sheet:done"

\* the exercise parseExerciseRow makes of the valid row
ValidExercise == parseExerciseRow(ValidRow, customMappings)[1]

\* row k of the worksheet (counted from 1, the header) has an undefined, null
\* or empty cell, a cell that is no number, or no cells at all
IsMessyRow(k) == rows[k] \in MessyRowPool

(* C25: on messy input the core functions return a result: parseWorksheet
   goes on past rows with null, undefined, empty or non-numeric cells and
   still parses the valid rows behind them, each accepted row giving one
   exercise in row order; a label that is no date gives dateObject null
   and the exercises all the same; detectHRPeaks and correlateSetsToHR
   return on an empty heart-rate stream, with no peaks and hrData null;
   and calculateChange returns display 'N/A' for a previous of zero or
   null. *)
C25_MessyInputStillParsed ==
    /\ SheetDone =>
          /\ workout # NotRun
          /\ workout[1].exercises = AcceptedFrom(rows, customMappings, 2)
          /\ workout[1].exercises # <<>>
          /\ workout[1].exercises[Len(workout[1].exercises)] = ValidExercise
          /\ \A k \in 1..Len(workout[1].exercises) :
                \A j \in 1..Len(workout[1].exercises[k].sets) :
                    workout[1].exercises[k].sets[j] # NaN
          /\ ~ThreeIntegerParts(sheetName) => workout[1].dateObject = <<>>
    /\ (Detected /\ NoHeartRate) => peaks # NotRun /\ peaks[1] = <<>>
    /\ (CorrelateDone /\ NoHeartRate) =>
          /\ correlatedSets # NotRun
          /\ Len(correlatedSets[1]) = Len(allSets)
          /\ \A i \in 1..Len(allSets) : Correlated(i).hrData = <<>>
    /\ (pc = "change:done" /\ (previous = <<>> \/ previous[1] = Zero)) =>
          /\ change # NotRun
          /\ change[1].display = "N/A"

\* a worksheet named Template whose valid row stands behind two messy rows,
\* a short one and one of nulls, was parsed to the one exercise
C25_Witness ==
    /\ SheetDone
    /\ sheetName = Str("Template")
    /\ Len(rows) = MaxMessyRows + 2
    /\ rows[2] = <<Str("Con. Chest press"), Str("50"), Str("50")>>
    /\ \A k \in 3..(Len(rows) - 1) : rows[k] = <<Null, Null, Null, Null, Null>>
    /\ workout[1].dateObject = <<>>
    /\ workout[1].exercises[Len(workout[1].exercises)] = ValidExercise

---------------------------------------------------------------------------
(* Properties of the rolling average of detectHRPeaks, checked under SpecPeaks *)

\* the mean of the samples at the indices max(0, i - 30) .. min(length - 1, i + 30)
CenteredMean(i) ==
    LET first == Max2(0, i - RollingHalfWidth)
        last  == Min2(Len(hrData) - 1, i + RollingHalfWidth)
    IN  Frac(ReduceSum(SubSeq(hrData, first + 1, last + 1)), last - first + 1)

(* C27: the rolling average detectHRPeaks compares against, and reports as
   avgHR of each peak, is for every index i the mean of the samples at the
   indices max(0, i - 30) .. min(length - 1, i + 30), whatever the
   windowSize option. *)
C27_RollingAverageCentered ==
    pc = "peaks:done" =>
        /\ \A i \in Scanned : RollingAvg(hrData, i) = CenteredMean(i)
        /\ \A k \in 1..Len(peaks[1]) : peaks[1][k].avgHR = CenteredMean(peaks[1][k].index)

---------------------------------------------------------------------------
(* Properties of saveWorkout and the sheet read back, checked under SpecSave *)

\* the exercise read back for the saved exercise k
ReadBack(k) == workout[1].exercises[k]

(* C28: after saveWorkout(date, exercises) on a date that had no sheet, the
   rows of that sheet read back through parseWorksheet give one exercise
   per saved exercise, in the same order, with the same name and the same
   weights and reps set by set. *)
C28_SavedWorkoutReadsBack ==
    (pc = "save:done" /\ exists = <<FALSE>>) =>
        /\ Len(workout[1].exercises) = Len(saveExercises)
        /\ \A k \in 1..Len(saveExercises) :
              /\ ReadBack(k).name = saveExercises[k].name
              /\ ReadBack(k).sets =
                    [j \in 1..Len(saveExercises[k].sets) |-> saveExercises[k].sets[j].weight]
              /\ ReadBack(k).reps =
                    [j \in 1..Len(saveExercises[k].sets) |-> saveExercises[k].sets[j].reps]

---------------------------------------------------------------------------
(* Properties of fetchAllWorkouts, checked under SpecFetchLive *)

\* the loop of fetchAllWorkouts has been entered
FetchLooping == pc \in {"fetch:loop", "fetch:done"}

\* the date sheets the loop has handled, in sheet order
HandledSheets == SubSeq(dateSheets, 1, next - 1)

\* the fetch of the sheet failed
FetchFailed(name) == \E k \in 1..Len(failed) : failed[k] = name
FetchSucceeded(name) == ~FetchFailed(name)

\* the handled sheets whose fetch was answered, in sheet order, and their workouts
FetchedSheets == SelectSeq(HandledSheets, FetchSucceeded)
FetchedWorkouts ==
    [k \in 1..Len(FetchedSheets) |-> FetchedWorkout(FetchedSheets[k], sheets, customMappings)]

\* the workout has an exercise
HasExercises(w) == Len(w.exercises) >= 1

\* the sheets onProgress was called with, call by call
ProgressSheets == [k \in 1..Len(progress) |-> progress[k].currentSheet]

\* what holds of the loop at every moment
FetchLoopInvariant ==
    FetchLooping =>
        /\ dateSheets = SelectSeq(getSheetNames(sheets), dateRegexTest)
        /\ failed = SelectSeq(HandledSheets, FetchFailed)
        /\ ProgressSheets = FetchedSheets
        /\ workouts = SelectSeq(FetchedWorkouts, HasExercises)
        /\ \A k \in 1..Len(progress) :
              /\ progress[k].current = k
              /\ progress[k].current <= progress[k].total
              /\ progress[k].total = Len(dateSheets)
        /\ pc = "fetch:done" => HandledSheets = dateSheets

(* C29: fetchAllWorkouts handles the date-named sheets one at a time in
   sheet order; a sheet whose fetch fails is skipped and the loop goes on,
   so that every later sheet is still fetched and the call resolves; the
   result holds, in sheet order, exactly the fetched sheets with at least
   one exercise; and onProgress is called once for each fetched sheet,
   with current one more each time and never above total. *)
C29_FetchSkipsFailuresAndResolves ==
    /\ []FetchLoopInvariant
    /\ (pc = "fetch:loop") ~> (pc = "fetch:done")

\* of three date sheets the second failed; the third was fetched after it,
\* and the call returned the two workouts with two calls of onProgress
C29_Witness ==
    /\ pc = "fetch:done"
    /\ dateSheets = <<"1/28/2026", "1/5/26", "13/45/203">>
    /\ failed = <<"1/5/26">>
    /\ ProgressSheets = <<"1/28/2026", "13/45/203">>
    /\ Len(workouts) = 2
    /\ workouts[2].date = Str("13/45/203")
    /\ progress[2].current = 2

---------------------------------------------------------------------------
(* Properties of the session counts of calculateExerciseHistory, checked
   under SpecHistory *)

\* workout i lists the exercise asked for at least once
ListsExercise(i) ==
    \E k \in 1..Len(workouts[i].exercises) :
        trim(toLowerCase(workouts[i].exercises[k].name)) = trim(toLowerCase(exerciseName))

\* the number of times workout i lists it
Listings(i) ==
    Cardinality({k \in 1..Len(workouts[i].exercises) :
        trim(toLowerCase(workouts[i].exercises[k].name)) = trim(toLowerCase(exerciseName))})

(* C30: in every result of calculateExerciseHistory the session counts are
   nested, oneWeekAvg.sessions <= twoWeekAvg.sessions <=
   fourWeekAvg.sessions <= allTimeAvg.sessions <= the number of workouts
   handed in; a workout counts for at most one session even when it lists
   the exercise more than once; and previousSession is not null exactly
   when allTimeAvg.sessions > 0. *)
C30_SessionCountsNested ==
    pc = "history:done" =>
        /\ history[1].oneWeekAvg.sessions <= history[1].twoWeekAvg.sessions
        /\ history[1].twoWeekAvg.sessions <= history[1].fourWeekAvg.sessions
        /\ history[1].fourWeekAvg.sessions <= history[1].allTimeAvg.sessions
        /\ history[1].allTimeAvg.sessions <= Len(workouts)
        /\ history[1].allTimeAvg.sessions <= Cardinality({i \in 1..Len(workouts) : ListsExercise(i)})
        /\ (history[1].previousSession # <<>>) <=> (history[1].allTimeAvg.sessions > 0)

\* seen from 1/29/2026, the workouts of 1/28, of 1/15 with the exercise listed
\* twice, and of 1/1 give 1, 2, 3 and 3 sessions
C30_Witness ==
    /\ pc = "history:done"
    /\ currentDate = <<DateOf("1/29/2026")>>
    /\ Len(workouts) = 3
    /\ workouts[1].date = Str("1/28/2026")
    /\ workouts[2].date = Str("1/15/2026")
    /\ workouts[3].date = Str("1/1/2026")
    /\ Listings(2) = 2
    /\ history[1].oneWeekAvg.sessions = 1
    /\ history[1].twoWeekAvg.sessions = 2
    /\ history[1].fourWeekAvg.sessions = 3
    /\ history[1].allTimeAvg.sessions = 3
    /\ history[1].previousSession # <<>>
=============================================================================
